---- MODULE Spec2Model ----
(***************************************************************************)
(* Tide finality gadget of amunchain (src/src/core/consensus/tide.rs):     *)
(* vote ingestion with freshness and replay checks, signature             *)
(* verification, double-vote detection, threshold commit assembly and     *)
(* commit verification; the peer scorer of the transport                  *)
(* (src/src/networking/peer_score.rs): scores, decay and bans; the event  *)
(* loop of the transport (src/src/networking/p2p.rs): connection          *)
(* admission and the inbound path; the Merkle tree and the persistent     *)
(* state (src/src/core/state/); and the signing rate limiter of the       *)
(* keystore (src/src/core/security/keystore.rs).                          *)
(*                                                                         *)
(* Option<T> values are modelled as sets with at most one element          *)
(* ({} = None, {x} = Some(x)); a BTreeMap is a function whose DOMAIN is    *)
(* the key set; ValidatorIds and block hashes are natural numbers ordered  *)
(* as the byte strings they stand for (all ValidatorIds are 32 bytes long,  *)
(* as the node configuration requires, so as_public_key_bytes succeeds).   *)
(*                                                                         *)
(* The finalizer's functions are operators that take the state they read   *)
(* and return the state they leave together with the value they return;    *)
(* the action ProcessVoteVerified applies process_vote_verified to the     *)
(* variables.  Properties of what a call returns are stated over           *)
(* Outcome(v, now), the result of the call in the current state, for every *)
(* input v of the specification.                                           *)
(***************************************************************************)
EXTENDS Integers, Sequences, FiniteSets, TLC

VARIABLES
  validators,    \* cfg.validators: BTreeSet<ValidatorId>, fixed after construction
  require_epoch, \* cfg.require_epoch
  votes,         \* votes[height][round][voter] = (block_hash, sig, meta)
  replay,        \* replay[voter] = ReplayState
  emitted,       \* history: the commits returned so far, per (height, round)
  slashed,       \* history: per on_double_vote call, (height, round, number of commits
                 \* returned for that round before the call)
  accepted,      \* history: per voter and epoch, the largest msg_counter and
                 \* sent_ts_ms among the non-legacy votes accepted so far
  log_calls,     \* whether last_call is kept (fixed by the specification)
  last_call,     \* history: the last call of the finalizer or of the peer scorer,
                 \* its input, clock and result
  peers,         \* PeerScore.peers: BTreeMap<PeerId, PeerState>
  clock,         \* the Instant (in ms since startup) of the latest call or event
  allowlist,     \* spawn_p2p: BTreeSet<PeerId> of cfg.allow_peers
  max_peers_per_ip, \* cfg.max_peers_per_ip
  max_msg_per_sec,  \* cfg.max_msg_per_sec
  production,    \* whether the build has the feature "production"
  peers_by_ip,   \* BTreeMap<IpAddr, BTreeSet<PeerId>>
  peer_rates,    \* BTreeMap<PeerId, RateWindow>
  peer_backoff,  \* BTreeMap<PeerId, BackoffState>
  replay_cache,  \* the ReplayCache `replay` of spawn_p2p: [q, set, cap]
  metrics,       \* the p2p counters of Metrics
  inbound,       \* the messages waiting in the inbound channel (in_tx / in_rx)
  conns,         \* the swarm's open connections, each [peer, ip, id]
  conn_seq,      \* the swarm's ConnectionId counter: connections established so far
  doomed,        \* the open connections the node has asked the swarm to close
  admitted,      \* history: the open connections whose establishment was accepted
  bumped,        \* history, kept where calls are logged: per peer, the BackoffState its latest bump left
  stores,        \* the sled trees of the PersistentState instances: key -> value
  pairs,         \* the list of (key, value) pairs the Merkle functions are given
  limiter,       \* Keystore.limiter: the RateLimiter behind the mutex
  mutex,         \* the task holding the limiter's MutexGuard, None if free
  audit,         \* the records appended to audit.log
  tasks,         \* per task, the position of its Keystore::sign call
  signed,        \* the sign calls that returned a signature
  calls          \* history: the decisions of the limiter, in the order of the lock

finalizer_vars == <<validators, require_epoch, votes, replay, emitted, slashed, accepted>>
transport_vars == <<allowlist, max_peers_per_ip, max_msg_per_sec, production, peers_by_ip,
                    peer_rates, peer_backoff, replay_cache, metrics, inbound, conns,
                    conn_seq, doomed, admitted, bumped>>
store_vars == <<stores, pairs>>
keystore_vars == <<limiter, mutex, audit, tasks, signed, calls>>

vars == <<finalizer_vars, log_calls, last_call, peers, clock, transport_vars, store_vars,
          keystore_vars>>

----------------------------------------------------------------------------
(* Bounds of the model *)

MaxValidators == 4
MaxRound == 1

(* TideConfig::new defaults *)
max_clock_skew_ms == 10000
max_ttl_ms == 60000

(* A wall-clock reading (ms) of the local node; 0 models an unavailable clock *)
NowMs == 100000
NowValues == {0, NowMs}

(* ScoreParams::default() *)
ban_threshold == -100
max_score == 200
min_score == -200
decay_per_min == 2
ban_base_secs == 30
ban_max_secs == 3600

(* Duration::from_secs: an Instant is counted in milliseconds *)
MsPerSec == 1000

(* The Instants of the peer scorer's calls lie in 0..MaxTime *)
MaxTime == 600000

(* p2p.rs *)
MAX_WIRE_MSG_BYTES == 256 * 1024

(* Bounds of the transport model: the largest value a counter of Metrics  *)
(* takes, the capacity of the inbound channel and of the replay cache      *)
(* (4096 and REPLAY_CACHE_MAX = 8192 in spawn_p2p), the latest Instant of  *)
(* an event, the length of a payload below the cap                         *)
MaxCount == 1
MaxInvalid == 9 + MaxCount
InboundCap == 1
ReplayCap == 2
MaxRate == 2
MaxUptime == 1000
MaxConns == 2
MaxIpPeers == 2
SmallLen == 100

(* The modulus of the backoff jitter, and the values the jitter takes in the *)
(* model: the ends of its range                                              *)
JitterMod == 250
MaxJitter == JitterMod - 1
Jitters == {0, MaxJitter}

(* i32::MIN and i32::MAX *)
I32Min == -(2^30) - 2^30
I32Max == 2^30 + (2^30 - 1)

Heights == {1}
Rounds == 0..MaxRound
Hashes == {1, 2}

----------------------------------------------------------------------------
(* Generic helpers *)

None == {}
Some(x) == {x}

EmptyMap == [k \in {} |-> 0]

MapInsert(m, k, val) == [x \in (DOMAIN m) \cup {k} |-> IF x = k THEN val ELSE m[x]]

RECURSIVE LexLess(_, _)
LexLess(a, b) ==
  IF a = <<>> \/ b = <<>> THEN FALSE
  ELSE IF Head(a) # Head(b) THEN Head(a) < Head(b)
  ELSE LexLess(Tail(a), Tail(b))

----------------------------------------------------------------------------
(* Types *)

VoteMeta(epoch, msg_counter, sent_ts_ms, ttl_ms) ==
  [epoch |-> epoch, msg_counter |-> msg_counter, sent_ts_ms |-> sent_ts_ms, ttl_ms |-> ttl_ms]

MetaOf(v) == VoteMeta(v.epoch, v.msg_counter, v.sent_ts_ms, v.ttl_ms)

LegacyMeta == VoteMeta(0, 0, 0, 0)

(* derive(Ord) on (H256, VoteMeta): lexicographic over the fields in order *)
GroupKey(hash, meta) == <<hash, meta.epoch, meta.msg_counter, meta.sent_ts_ms, meta.ttl_ms>>

----------------------------------------------------------------------------
(* Signing transcripts and signatures *)

(* A transcript is the sequence of its fields in the order they are appended; *)
(* its first element stands for the 22 bytes of the domain prefix, which has   *)
(* the same length in both versions                                            *)

vote_signing_bytes_v1(height, round, block_hash, voter) ==
  <<"Amunchain-Tide-Vote-v1", height, round, block_hash, voter>>

vote_signing_bytes_v2(height, round, epoch, msg_counter, sent_ts_ms, ttl_ms, block_hash, voter) ==
  <<"Amunchain-Tide-Vote-v2", height, round, epoch, msg_counter, sent_ts_ms, ttl_ms, block_hash, voter>>

(* Faulty variant: ttl_ms is not looked at when the version is selected *)
vote_signing_bytes_auto_IgnoreTtl(height, round, epoch, msg_counter, sent_ts_ms, ttl_ms, block_hash, voter) ==
  IF epoch = 0 /\ msg_counter = 0 /\ sent_ts_ms = 0
  THEN vote_signing_bytes_v1(height, round, block_hash, voter)
  ELSE vote_signing_bytes_v2(height, round, epoch, msg_counter, sent_ts_ms, ttl_ms, block_hash, voter)

vote_signing_bytes_auto(height, round, epoch, msg_counter, sent_ts_ms, ttl_ms, block_hash, voter) ==
  IF epoch = 0 /\ msg_counter = 0 /\ sent_ts_ms = 0 /\ ttl_ms = 0
  THEN vote_signing_bytes_v1(height, round, block_hash, voter)
  ELSE vote_signing_bytes_v2(height, round, epoch, msg_counter, sent_ts_ms, ttl_ms, block_hash, voter)

(* An Ed25519 signature is the pair (signing key, message): it verifies    *)
(* under exactly that key and that message.  A ValidatorId is its own      *)
(* public key.                                                             *)
Sign(key, msg) == <<key, msg>>

verify_pubkey_bytes(pk_bytes, msg, sig) == sig = Sign(pk_bytes, msg)

TranscriptOf(v) ==
  vote_signing_bytes_auto(v.height, v.round, v.epoch, v.msg_counter,
                          v.sent_ts_ms, v.ttl_ms, v.block_hash, v.voter)

----------------------------------------------------------------------------
(* TideFinalizer *)

(* Faulty variant: the "+ 1" of the supermajority is forgotten *)
Threshold_TwoThirds(n) == (2 * n) \div 3

(* Faulty variant: one vote more than the supermajority is asked for *)
Threshold_PlusTwo(n) == (2 * n) \div 3 + 2

Threshold(n) == (2 * n) \div 3 + 1

(* Faulty variant: a skew of exactly max_clock_skew_ms is rejected *)
check_freshness_ExclusiveSkew(sent_ts_ms, ttl_ms, now) ==
  IF sent_ts_ms = 0 /\ ttl_ms = 0 THEN TRUE
  ELSE IF ttl_ms # 0 /\ ttl_ms > max_ttl_ms THEN FALSE
  ELSE IF now = 0 THEN FALSE
  ELSE IF sent_ts_ms # 0 /\
          (IF now >= sent_ts_ms THEN now - sent_ts_ms ELSE sent_ts_ms - now) >= max_clock_skew_ms
       THEN FALSE
  ELSE IF sent_ts_ms # 0 /\ ttl_ms # 0 /\ now > (sent_ts_ms + ttl_ms) + max_clock_skew_ms
       THEN FALSE
  ELSE TRUE

(* u64 and u32 are modelled 30 and 20 bits wide *)
U64Max == 2^30 - 1
U32Max == 2^20 - 1

(* Faulty variant: the sum wraps around *)
u64_wrapping_add(a, b) == (a + b) % (U64Max + 1)

(* u64::saturating_add *)
u64_saturating_add(a, b) == IF a > U64Max - b THEN U64Max ELSE a + b

(* check_freshness of a finalizer configured with the given max_clock_skew_ms *)
(* and max_ttl_ms: TRUE for Ok(()), FALSE for Err(Replay)                     *)
check_freshness_cfg(skew_ms, ttl_cap_ms, sent_ts_ms, ttl_ms, now) ==
  IF sent_ts_ms = 0 /\ ttl_ms = 0 THEN TRUE
  ELSE IF ttl_ms # 0 /\ ttl_ms > ttl_cap_ms THEN FALSE
  ELSE IF now = 0 THEN FALSE
  ELSE IF sent_ts_ms # 0 /\
          (IF now >= sent_ts_ms THEN now - sent_ts_ms ELSE sent_ts_ms - now) > skew_ms
       THEN FALSE
  ELSE IF sent_ts_ms # 0 /\ ttl_ms # 0
          /\ now > u64_saturating_add(u64_saturating_add(sent_ts_ms, ttl_ms), skew_ms)
       THEN FALSE
  ELSE TRUE

(* check_freshness under the default configuration *)
check_freshness(sent_ts_ms, ttl_ms, now) ==
  check_freshness_cfg(max_clock_skew_ms, max_ttl_ms, sent_ts_ms, ttl_ms, now)

(* Faulty variant: only a counter below the last one is a replay *)
check_replay_counter_Strict(rp, req, voter, epoch, msg_counter, sent_ts_ms) ==
  IF epoch = 0 /\ msg_counter = 0 /\ sent_ts_ms = 0
  THEN [ok |-> ~req, replay |-> rp]
  ELSE IF req /\ epoch = 0 THEN [ok |-> FALSE, replay |-> rp]
  ELSE IF /\ voter \in DOMAIN rp
          /\ rp[voter].epoch = epoch
          /\ \/ (msg_counter # 0 /\ msg_counter < rp[voter].last_counter)
             \/ (sent_ts_ms # 0 /\ rp[voter].last_sent_ts_ms # 0
                 /\ sent_ts_ms < rp[voter].last_sent_ts_ms)
       THEN [ok |-> FALSE, replay |-> rp]
  ELSE [ok |-> TRUE,
        replay |-> MapInsert(rp, voter, [epoch |-> epoch,
                                         last_counter |-> msg_counter,
                                         last_sent_ts_ms |-> sent_ts_ms])]

(* Faulty variant: under require_epoch only the all-zero legacy triple is rejected *)
check_replay_counter_LegacyOnly(rp, req, voter, epoch, msg_counter, sent_ts_ms) ==
  IF epoch = 0 /\ msg_counter = 0 /\ sent_ts_ms = 0
  THEN [ok |-> ~req, replay |-> rp]
  ELSE IF /\ voter \in DOMAIN rp
          /\ rp[voter].epoch = epoch
          /\ \/ (msg_counter # 0 /\ msg_counter <= rp[voter].last_counter)
             \/ (sent_ts_ms # 0 /\ rp[voter].last_sent_ts_ms # 0
                 /\ sent_ts_ms < rp[voter].last_sent_ts_ms)
       THEN [ok |-> FALSE, replay |-> rp]
  ELSE [ok |-> TRUE,
        replay |-> MapInsert(rp, voter, [epoch |-> epoch,
                                         last_counter |-> msg_counter,
                                         last_sent_ts_ms |-> sent_ts_ms])]

(* Returns [ok, replay]: whether the check passed and the replay map after it *)
check_replay_counter(rp, req, voter, epoch, msg_counter, sent_ts_ms) ==
  IF epoch = 0 /\ msg_counter = 0 /\ sent_ts_ms = 0
  THEN [ok |-> ~req, replay |-> rp]
  ELSE IF req /\ epoch = 0 THEN [ok |-> FALSE, replay |-> rp]
  ELSE IF /\ voter \in DOMAIN rp
          /\ rp[voter].epoch = epoch
          /\ \/ (msg_counter # 0 /\ msg_counter <= rp[voter].last_counter)
             \/ (sent_ts_ms # 0 /\ rp[voter].last_sent_ts_ms # 0
                 /\ sent_ts_ms < rp[voter].last_sent_ts_ms)
       THEN [ok |-> FALSE, replay |-> rp]
  ELSE [ok |-> TRUE,
        replay |-> MapInsert(rp, voter, [epoch |-> epoch,
                                         last_counter |-> msg_counter,
                                         last_sent_ts_ms |-> sent_ts_ms])]

(* The round's vote map, empty when the height or the round has no entry *)
RoundVotes(vts, height, round) ==
  IF height \in DOMAIN vts /\ round \in DOMAIN vts[height] THEN vts[height][round] ELSE EmptyMap

(* Faulty variant: votes are grouped by block_hash alone *)
Group_HashOnly(rm, hash, meta) ==
  {vid \in DOMAIN rm : rm[vid].block_hash = hash}

(* The voters of rm whose record has this (hash, meta) *)
Group(rm, hash, meta) ==
  {vid \in DOMAIN rm : rm[vid].block_hash = hash /\ rm[vid].meta = meta}

(* The keys of `counts` whose count reaches the threshold *)
Winners(rm, n) ==
  {k \in {<<rm[vid].block_hash, rm[vid].meta>> : vid \in DOMAIN rm} :
     Cardinality(Group(rm, k[1], k[2])) >= Threshold(n)}

(* counts.iter() visits the keys in ascending order; the first winner is returned *)
FirstWinner(W) ==
  CHOOSE k \in W : \A o \in W : o = k \/ LexLess(GroupKey(k[1], k[2]), GroupKey(o[1], o[2]))

(* Faulty variant: the signatures of all the round's voters are bundled *)
CollectSigs_NoFilter(rm, hash, meta) ==
  [vid \in DOMAIN rm |-> rm[vid].signature]

(* sigs: the signatures of the voters that voted (hash, meta), keyed by ValidatorId *)
CollectSigs(rm, hash, meta) ==
  [vid \in Group(rm, hash, meta) |-> rm[vid].signature]

try_build_commit(vts, vals, height, round) ==
  IF ~(height \in DOMAIN vts) THEN None
  ELSE IF ~(round \in DOMAIN vts[height]) THEN None
  ELSE LET rm == vts[height][round]
           W == Winners(rm, Cardinality(vals))
       IN IF W = {} THEN None
          ELSE LET k == FirstWinner(W)
                   hash == k[1]
                   meta == k[2]
               IN Some([height |-> height,
                        round |-> round,
                        epoch |-> meta.epoch,
                        msg_counter |-> meta.msg_counter,
                        sent_ts_ms |-> meta.sent_ts_ms,
                        ttl_ms |-> meta.ttl_ms,
                        block_hash |-> hash,
                        signatures |-> CollectSigs(rm, hash, meta)])

(* votes.entry(height).or_default().entry(round).or_default() *)
WithEntries(vts, height, round) ==
  LET hv == IF height \in DOMAIN vts THEN vts[height] ELSE EmptyMap
      rv == IF round \in DOMAIN hv THEN hv[round] ELSE EmptyMap
  IN MapInsert(vts, height, MapInsert(hv, round, rv))

(* Faulty variant: a duplicate vote falls through to commit assembly *)
process_vote_inner_DupCommits(vts, vals, v) ==
  LET vts1 == WithEntries(vts, v.height, v.round)
      round_votes == vts1[v.height][v.round]
      meta == MetaOf(v)
      rec == [block_hash |-> v.block_hash, signature |-> v.signature, meta |-> meta]
      vts2 == [vts1 EXCEPT ![v.height] =
                 [vts1[v.height] EXCEPT ![v.round] = MapInsert(round_votes, v.voter, rec)]]
  IN IF v.voter \in DOMAIN round_votes
        /\ (round_votes[v.voter].block_hash # v.block_hash \/ round_votes[v.voter].meta # meta)
     THEN [votes |-> vts1, result |-> "DoubleVote", commit |-> None, slashed |-> <<v.voter>>]
     ELSE [votes |-> vts2, result |-> "Ok",
           commit |-> try_build_commit(vts2, vals, v.height, v.round), slashed |-> <<>>]

(* Faulty variant: a diverging vote replaces the voter's record before DoubleVote is returned *)
process_vote_inner_Overwrite(vts, vals, v) ==
  LET vts1 == WithEntries(vts, v.height, v.round)
      round_votes == vts1[v.height][v.round]
      meta == MetaOf(v)
      rec == [block_hash |-> v.block_hash, signature |-> v.signature, meta |-> meta]
      vts2 == [vts1 EXCEPT ![v.height] =
                 [vts1[v.height] EXCEPT ![v.round] = MapInsert(round_votes, v.voter, rec)]]
  IN IF v.voter \in DOMAIN round_votes
     THEN IF round_votes[v.voter].block_hash # v.block_hash \/ round_votes[v.voter].meta # meta
          THEN [votes |-> vts2, result |-> "DoubleVote", commit |-> None, slashed |-> <<v.voter>>]
          ELSE [votes |-> vts1, result |-> "Ok", commit |-> None, slashed |-> <<>>]
     ELSE [votes |-> vts2, result |-> "Ok",
           commit |-> try_build_commit(vts2, vals, v.height, v.round), slashed |-> <<>>]

(* Returns [votes, result, commit, slashed] *)
process_vote_inner(vts, vals, v) ==
  LET vts1 == WithEntries(vts, v.height, v.round)
      round_votes == vts1[v.height][v.round]
      meta == MetaOf(v)
  IN IF v.voter \in DOMAIN round_votes
     THEN IF round_votes[v.voter].block_hash # v.block_hash \/ round_votes[v.voter].meta # meta
          THEN [votes |-> vts1, result |-> "DoubleVote", commit |-> None, slashed |-> <<v.voter>>]
          ELSE [votes |-> vts1, result |-> "Ok", commit |-> None, slashed |-> <<>>]
     ELSE LET rec == [block_hash |-> v.block_hash, signature |-> v.signature, meta |-> meta]
              vts2 == [vts1 EXCEPT ![v.height] =
                         [vts1[v.height] EXCEPT ![v.round] = MapInsert(round_votes, v.voter, rec)]]
          IN [votes |-> vts2, result |-> "Ok",
              commit |-> try_build_commit(vts2, vals, v.height, v.round), slashed |-> <<>>]

(* Faulty variant: the membership check comes after the freshness and replay checks *)
process_vote_verified_LateMembership(vts, rp, vals, req, v, now) ==
  LET fail(err, rp1) == [votes |-> vts, replay |-> rp1, result |-> err,
                         commit |-> None, slashed |-> <<>>]
  IN IF ~check_freshness(v.sent_ts_ms, v.ttl_ms, now) THEN fail("Replay", rp)
     ELSE LET rc == check_replay_counter(rp, req, v.voter, v.epoch, v.msg_counter, v.sent_ts_ms)
          IN IF ~rc.ok THEN fail("Replay", rc.replay)
             ELSE IF ~(v.voter \in vals) THEN fail("UnknownValidator", rc.replay)
             ELSE IF ~verify_pubkey_bytes(v.voter, TranscriptOf(v), v.signature)
                  THEN fail("BadSignature", rc.replay)
             ELSE LET r == process_vote_inner(vts, vals, v)
                  IN [votes |-> r.votes, replay |-> rc.replay, result |-> r.result,
                      commit |-> r.commit, slashed |-> r.slashed]

(* Faulty variant: a commit with floor(2N/3) signers passes the size check *)
process_commit_verified_TwoThirds(vals, req, c, now) ==
  IF ~check_freshness(c.sent_ts_ms, c.ttl_ms, now) THEN "Replay"
  ELSE IF req /\ c.epoch = 0 THEN "Replay"
  ELSE IF \E vid \in DOMAIN c.signatures : ~(vid \in vals) THEN "UnknownValidator"
  ELSE IF Cardinality(DOMAIN c.signatures) < (2 * Cardinality(vals)) \div 3
       THEN "NotEnoughVotes"
  ELSE IF \E vid \in DOMAIN c.signatures :
            ~verify_pubkey_bytes(vid,
               vote_signing_bytes_auto(c.height, c.round, c.epoch, c.msg_counter,
                                       c.sent_ts_ms, c.ttl_ms, c.block_hash, vid),
               c.signatures[vid])
       THEN "BadSignature"
  ELSE "Ok"

(* Returns "Ok" or the TideError; the finalizer's state is not touched *)
process_commit_verified(vals, req, c, now) ==
  IF ~check_freshness(c.sent_ts_ms, c.ttl_ms, now) THEN "Replay"
  ELSE IF req /\ c.epoch = 0 THEN "Replay"
  ELSE IF \E vid \in DOMAIN c.signatures : ~(vid \in vals) THEN "UnknownValidator"
  ELSE IF Cardinality(DOMAIN c.signatures) < (2 * Cardinality(vals)) \div 3 + 1
       THEN "NotEnoughVotes"
  ELSE IF \E vid \in DOMAIN c.signatures :
            ~verify_pubkey_bytes(vid,
               vote_signing_bytes_auto(c.height, c.round, c.epoch, c.msg_counter,
                                       c.sent_ts_ms, c.ttl_ms, c.block_hash, vid),
               c.signatures[vid])
       THEN "BadSignature"
  ELSE "Ok"

(* Faulty variant: the vote's signature is not verified *)
process_vote_verified_NoVerify(vts, rp, vals, req, v, now) ==
  LET fail(err, rp1) == [votes |-> vts, replay |-> rp1, result |-> err,
                         commit |-> None, slashed |-> <<>>]
  IN IF ~(v.voter \in vals) THEN fail("UnknownValidator", rp)
     ELSE IF ~check_freshness(v.sent_ts_ms, v.ttl_ms, now) THEN fail("Replay", rp)
     ELSE LET rc == check_replay_counter(rp, req, v.voter, v.epoch, v.msg_counter, v.sent_ts_ms)
          IN IF ~rc.ok THEN fail("Replay", rc.replay)
             ELSE LET r == process_vote_inner(vts, vals, v)
                  IN [votes |-> r.votes, replay |-> rc.replay, result |-> r.result,
                      commit |-> r.commit, slashed |-> r.slashed]

(* Returns [votes, replay, result, commit, slashed] *)
process_vote_verified(vts, rp, vals, req, v, now) ==
  LET fail(err, rp1) == [votes |-> vts, replay |-> rp1, result |-> err,
                         commit |-> None, slashed |-> <<>>]
  IN IF ~(v.voter \in vals) THEN fail("UnknownValidator", rp)
     ELSE IF ~check_freshness(v.sent_ts_ms, v.ttl_ms, now) THEN fail("Replay", rp)
     ELSE LET rc == check_replay_counter(rp, req, v.voter, v.epoch, v.msg_counter, v.sent_ts_ms)
          IN IF ~rc.ok THEN fail("Replay", rc.replay)
             ELSE IF ~verify_pubkey_bytes(v.voter, TranscriptOf(v), v.signature)
                  THEN fail("BadSignature", rc.replay)
             ELSE LET r == process_vote_inner(vts, vals, v)
                  IN [votes |-> r.votes, replay |-> rc.replay, result |-> r.result,
                      commit |-> r.commit, slashed |-> r.slashed]

(* TideConfig::new: `build` is whether the feature "production" is compiled in *)
TideConfig_new(vals, build) ==
  [validators |-> vals, max_clock_skew_ms |-> max_clock_skew_ms,
   max_ttl_ms |-> max_ttl_ms, require_epoch |-> build]

(* ConsensusDriver::new (src/src/core/consensus/driver.rs): Err for the empty *)
(* validator set, else the driver's finalizer with no vote recorded           *)
ConsensusDriver_new(vals, build) ==
  IF vals = {} THEN [result |-> "InvalidValidators"]
  ELSE [result |-> "Ok",
        tide |-> [cfg |-> TideConfig_new(vals, build), votes |-> EmptyMap,
                  replay |-> EmptyMap]]

----------------------------------------------------------------------------
(* PeerScore (src/src/networking/peer_score.rs).  An Instant is a number of   *)
(* milliseconds; a PeerState is [score, last_decay, banned_until, ban_level]; the  *)
(* methods return the peers map they leave and the value they return.         *)

Max(a, b) == IF a >= b THEN a ELSE b
Min(a, b) == IF a <= b THEN a ELSE b

(* i32::saturating_add *)
saturating_add(a, b) ==
  IF a >= 0 /\ b > I32Max - a THEN I32Max
  ELSE IF a < 0 /\ b < I32Min - a THEN I32Min
  ELSE a + b

(* i32::saturating_mul for a > 0 and b >= 0 *)
saturating_mul(a, b) == IF b > I32Max \div a THEN I32Max ELSE a * b

(* i32::clamp *)
clamp(x, lo, hi) == IF x < lo THEN lo ELSE IF x > hi THEN hi ELSE x

(* i32 negation and abs without overflow checks: both wrap i32::MIN to itself *)
wrapping_neg(x) == IF x = I32Min THEN I32Min ELSE 0 - x
wrapping_abs(x) == IF x < 0 THEN wrapping_neg(x) ELSE x

(* Faulty variant: the exponent is the ban level, not the level minus one *)
backoff_secs_NoSub(base, cap, level) ==
  LET pow == Min(level, 16)
      v == base * 2^pow
  IN IF v > cap THEN cap ELSE v

backoff_secs(base, cap, level) ==
  LET pow == Min(Max(level - 1, 0), 16)
      v == base * 2^pow
  IN IF v > cap THEN cap ELSE v

(* Faulty variant: last_decay is set to now, dropping the seconds beyond the *)
(* last full minute                                                          *)
decay_inner_ResetClock(st, now) ==
  LET elapsed == IF now >= st.last_decay THEN now - st.last_decay ELSE 0
      mins == (elapsed \div MsPerSec) \div 60
      d == saturating_mul(decay_per_min, mins)
  IN IF mins <= 0 THEN st
     ELSE [st EXCEPT !.last_decay = now,
                     !.score = IF @ > 0 THEN Max(@ - d, 0)
                               ELSE IF @ < 0 THEN Min(@ + d, 0)
                               ELSE @]

decay_inner(st, now) ==
  LET elapsed == IF now >= st.last_decay THEN now - st.last_decay ELSE 0
      mins == (elapsed \div MsPerSec) \div 60
      d == saturating_mul(decay_per_min, mins)
  IN IF mins <= 0 THEN st
     ELSE [st EXCEPT !.last_decay = @ + mins * 60 * MsPerSec,
                     !.score = IF @ > 0 THEN Max(@ - d, 0)
                               ELSE IF @ < 0 THEN Min(@ + d, 0)
                               ELSE @]

decay(ps, p, now) ==
  IF p \in DOMAIN ps THEN [ps EXCEPT ![p] = decay_inner(@, now)] ELSE ps

(* Faulty variant: the peer still counts as banned at the instant banned_until *)
is_banned_Inclusive(ps, p, now) ==
  LET ps1 == decay(ps, p, now)
  IN [peers |-> ps1,
      result |-> IF p \in DOMAIN ps1 /\ ps1[p].banned_until # None
                 THEN \E t \in ps1[p].banned_until : now <= t
                 ELSE FALSE]

is_banned(ps, p, now) ==
  LET ps1 == decay(ps, p, now)
  IN [peers |-> ps1,
      result |-> IF p \in DOMAIN ps1 /\ ps1[p].banned_until # None
                 THEN \E t \in ps1[p].banned_until : now < t
                 ELSE FALSE]

score(ps, p, now) ==
  LET ps1 == decay(ps, p, now)
  IN [peers |-> ps1, result |-> IF p \in DOMAIN ps1 THEN ps1[p].score ELSE 0]

(* Faulty variant: the updated score is not clamped *)
apply_NoClamp(ps, p, now, delta) ==
  LET ps1 == IF p \in DOMAIN ps THEN ps
             ELSE MapInsert(ps, p, [score |-> 0, last_decay |-> now,
                                    banned_until |-> None, ban_level |-> 0])
      st1 == decay_inner(ps1[p], now)
  IN IF \E until \in st1.banned_until : now < until
     THEN [peers |-> [ps1 EXCEPT ![p] = st1], result |-> "Ban"]
     ELSE LET sc == saturating_add(st1.score, delta)
          IN IF sc <= ban_threshold
             THEN LET level == st1.ban_level + 1
                      ban_secs == backoff_secs(ban_base_secs, ban_max_secs, level)
                  IN [peers |-> [ps1 EXCEPT ![p] =
                                   [st1 EXCEPT !.score = sc, !.ban_level = level,
                                               !.banned_until = Some(now + ban_secs * MsPerSec)]],
                      result |-> "Ban"]
             ELSE [peers |-> [ps1 EXCEPT ![p] = [st1 EXCEPT !.score = sc,
                                                             !.banned_until = None]],
                   result |-> IF sc < 0 THEN "Throttle" ELSE "Allow"]

(* Faulty variant: a score equal to ban_threshold does not ban *)
apply_StrictThreshold(ps, p, now, delta) ==
  LET ps1 == IF p \in DOMAIN ps THEN ps
             ELSE MapInsert(ps, p, [score |-> 0, last_decay |-> now,
                                    banned_until |-> None, ban_level |-> 0])
      st1 == decay_inner(ps1[p], now)
  IN IF \E until \in st1.banned_until : now < until
     THEN [peers |-> [ps1 EXCEPT ![p] = st1], result |-> "Ban"]
     ELSE LET sc == clamp(saturating_add(st1.score, delta), min_score, max_score)
          IN IF sc < ban_threshold
             THEN LET level == st1.ban_level + 1
                      ban_secs == backoff_secs(ban_base_secs, ban_max_secs, level)
                  IN [peers |-> [ps1 EXCEPT ![p] =
                                   [st1 EXCEPT !.score = sc, !.ban_level = level,
                                               !.banned_until = Some(now + ban_secs * MsPerSec)]],
                      result |-> "Ban"]
             ELSE [peers |-> [ps1 EXCEPT ![p] = [st1 EXCEPT !.score = sc,
                                                             !.banned_until = None]],
                   result |-> IF sc < 0 THEN "Throttle" ELSE "Allow"]

apply(ps, p, now, delta) ==
  LET ps1 == IF p \in DOMAIN ps THEN ps
             ELSE MapInsert(ps, p, [score |-> 0, last_decay |-> now,
                                    banned_until |-> None, ban_level |-> 0])
      st1 == decay_inner(ps1[p], now)
  IN IF \E until \in st1.banned_until : now < until
     THEN [peers |-> [ps1 EXCEPT ![p] = st1], result |-> "Ban"]
     ELSE LET sc == clamp(saturating_add(st1.score, delta), min_score, max_score)
          IN IF sc <= ban_threshold
             THEN LET level == st1.ban_level + 1
                      ban_secs == backoff_secs(ban_base_secs, ban_max_secs, level)
                  IN [peers |-> [ps1 EXCEPT ![p] =
                                   [st1 EXCEPT !.score = sc, !.ban_level = level,
                                               !.banned_until = Some(now + ban_secs * MsPerSec)]],
                      result |-> "Ban"]
             ELSE [peers |-> [ps1 EXCEPT ![p] = [st1 EXCEPT !.score = sc,
                                                             !.banned_until = None]],
                   result |-> IF sc < 0 THEN "Throttle" ELSE "Allow"]

observe_good(ps, p, now, delta) == apply(ps, p, now, Max(delta, 0))

(* `checked`: the build has overflow checks, so that delta.abs() panics for *)
(* i32::MIN before apply is called; without them abs and the negation wrap   *)
observe_bad(ps, p, now, delta, checked) ==
  IF checked /\ delta = I32Min THEN [peers |-> ps, result |-> "Panic"]
  ELSE apply(ps, p, now, wrapping_neg(wrapping_abs(delta)))

----------------------------------------------------------------------------
(* Transport (src/src/networking/p2p.rs).  The state of the event loop of    *)
(* spawn_p2p is the record                                                    *)
(*   [allowlist, max_peers_per_ip, max_msg_per_sec, production, peers_by_ip,  *)
(*    peer_rates, peer_backoff, replay, scoring, metrics]                     *)
(* whose field `scoring` is the peers map of the PeerScore.  A handler        *)
(* returns the record it leaves, the stage at which it ended, the message it  *)
(* sends on the inbound channel (None if it sends none) and whether it calls  *)
(* swarm.disconnect_peer_id.  A wire payload is [len, bytes]: its length and  *)
(* its content, <<"bincode", msg>> for the canonical encoding of msg and      *)
(* <<"junk", k>> for bytes that decode to nothing.                            *)

(* The u32 values of the model stay below 2^29, where saturating_mul(2),  *)
(* saturating_mul(4) and saturating_add(1) are plain arithmetic            *)
effective_rate_limit(base, sc) ==
  LET s == clamp(sc, -200, 200)
      scaled == IF s <= -100 THEN base \div 4
                ELSE IF s < 0 THEN base \div 2
                ELSE IF s < 50 THEN base
                ELSE IF s < 150 THEN base * 2
                ELSE base * 4
  IN Max(scaled, 1)

RateWindow_new(now) == [start |-> now, count |-> 0]

(* Returns [window, result] *)
RateWindow_allow(w, now, limit) ==
  LET w1 == IF now - w.start >= MsPerSec THEN [start |-> now, count |-> 0] ELSE w
  IN IF w1.count >= limit THEN [window |-> w1, result |-> FALSE]
     ELSE [window |-> [w1 EXCEPT !.count = @ + 1], result |-> TRUE]

BackoffState_new(now) == [until |-> now, strikes |-> 0]

(* Faulty variant: the backoff of the sender is not looked at *)
should_drop_Never(b, now) == FALSE

should_drop(b, now) == now < b.until

(* Faulty variant: the strikes are not capped *)
bump_NoCap(b, now, weight, h64) ==
  LET strikes == b.strikes + weight
      exp == Min(strikes \div 5, 8)
      base_ms == Min(50 * 2^exp, 5000)
      jitter == h64 % JitterMod
  IN [until |-> now + base_ms + jitter, strikes |-> strikes]

(* `h64` is the number read from the first 8 bytes of                    *)
(* sha256(peer || strikes || uptime_ms).  The weights of the transport   *)
(* are far from u32::MAX, so the saturating_add is a plain addition      *)
bump(b, now, weight, h64) ==
  LET strikes == Min(b.strikes + weight, 100)
      exp == Min(strikes \div 5, 8)
      base_ms == Min(50 * 2^exp, 5000)
      jitter == h64 % JitterMod
  IN [until |-> now + base_ms + jitter, strikes |-> strikes]

ReplayCache_new(cap) == [q |-> <<>>, set |-> {}, cap |-> cap]

(* Faulty variant: the loop pops the back of the queue *)
RECURSIVE Evict_Newest(_)
Evict_Newest(rc) ==
  IF Len(rc.q) > rc.cap
  THEN Evict_Newest([rc EXCEPT !.q = SubSeq(@, 1, Len(@) - 1), !.set = @ \ {rc.q[Len(rc.q)]}])
  ELSE rc

(* The `while q.len() > cap` loop: pop the front and remove it from the set *)
RECURSIVE Evict(_)
Evict(rc) ==
  IF Len(rc.q) > rc.cap
  THEN Evict([rc EXCEPT !.q = Tail(@), !.set = @ \ {Head(rc.q)}])
  ELSE rc

(* Returns [cache, result] *)
seen_or_insert(rc, id) ==
  IF id \in rc.set THEN [cache |-> rc, result |-> TRUE]
  ELSE [cache |-> Evict([rc EXCEPT !.set = @ \cup {id}, !.q = Append(@, id)]),
        result |-> FALSE]

(* SHA-256 is collision free: the digest stands for exactly its input *)
sha256(data) == <<"sha256", data>>

(* Ok(msg) as Some(msg), Err(_) as None *)
decode_canonical_limited(data, max) ==
  IF data.len > max THEN None
  ELSE IF data.bytes[1] = "bincode" THEN Some(data.bytes[2])
  ELSE None

(* The test of the production filter on a decoded ConsensusMsg *)
is_legacy(msg) == msg.body.epoch = 0 \/ msg.body.msg_counter = 0 \/ msg.body.sent_ts_ms = 0

Inc(m, counter) == [m EXCEPT ![counter] = @ + 1]

(* map.entry(k).or_insert_with(|| default) *)
EntryOr(m, k, default) == IF k \in DOMAIN m THEN m[k] ELSE default

Handled(n, stage, deliver, disconnect) ==
  [net |-> n, stage |-> stage, deliver |-> deliver, disconnect |-> disconnect]

(* The penalty of a dropped message: bump the backoff, observe_bad, and, where *)
(* the handler looks at the Decision, count and disconnect on Ban             *)
Penalised(n, src, now, weight, delta, jitter, stage, on_ban) ==
  LET b == bump(EntryOr(n.peer_backoff, src, BackoffState_new(now)), now, weight, jitter)
      d == observe_bad(n.scoring, src, now, delta, FALSE)
      ban == on_ban /\ d.result = "Ban"
      n1 == [n EXCEPT !.peer_backoff = MapInsert(@, src, b), !.scoring = d.peers]
  IN Handled(IF ban THEN [n1 EXCEPT !.metrics = Inc(@, "p2p_banned_total")] ELSE n1,
             stage, None, ban)

(* gossipsub::Event::Message *)
on_message(n, src, data, now, jitter) ==
  IF src \in DOMAIN n.peer_backoff /\ should_drop(n.peer_backoff[src], now)
  THEN Handled([n EXCEPT !.metrics = Inc(@, "p2p_reputation_throttled_total")],
               "backoff", None, FALSE)
  ELSE IF data.len > MAX_WIRE_MSG_BYTES
  THEN Penalised([n EXCEPT !.metrics = Inc(@, "p2p_invalid_msg_total")],
                 src, now, 10, 10, jitter, "oversize", TRUE)
  ELSE
    LET banned == is_banned(n.scoring, src, now)
    IN IF banned.result
       THEN Handled([n EXCEPT !.scoring = banned.peers,
                              !.metrics = Inc(@, "p2p_banned_total")],
                    "banned", None, TRUE)
       ELSE
         LET sc == score(banned.peers, src, now)
             eff_limit == effective_rate_limit(n.max_msg_per_sec, sc.result)
             rw == RateWindow_allow(EntryOr(n.peer_rates, src, RateWindow_new(now)),
                                    now, eff_limit)
             n1 == [n EXCEPT !.scoring = sc.peers,
                             !.peer_rates = MapInsert(@, src, rw.window)]
         IN IF ~rw.result
            THEN Penalised([n1 EXCEPT !.metrics =
                              Inc(@, IF eff_limit < n.max_msg_per_sec
                                     THEN "p2p_reputation_throttled_total"
                                     ELSE "p2p_rate_limited_total")],
                           src, now, 2, 5, jitter, "rate", TRUE)
            ELSE
              LET seen == seen_or_insert(n1.replay, sha256(data))
                  n2 == [n1 EXCEPT !.replay = seen.cache]
              IN IF seen.result
                 THEN Penalised([n2 EXCEPT !.metrics = Inc(@, "p2p_replay_dropped_total")],
                                src, now, 1, 1, jitter, "replay", FALSE)
                 ELSE
                   LET decoded == decode_canonical_limited(data, MAX_WIRE_MSG_BYTES)
                   IN IF decoded = None
                      THEN Penalised([n2 EXCEPT !.metrics = Inc(@, "p2p_invalid_msg_total")],
                                     src, now, 5, 10, jitter, "decode", TRUE)
                      ELSE
                        LET msg == CHOOSE m \in decoded : TRUE
                        IN IF n.production /\ is_legacy(msg)
                           THEN Penalised([n2 EXCEPT !.metrics =
                                             Inc(@, "p2p_invalid_msg_total")],
                                          src, now, 2, 2, jitter, "legacy", FALSE)
                           ELSE
                             LET good == observe_good(n2.scoring, src, now, 1)
                             IN Handled([n2 EXCEPT !.scoring = good.peers],
                                        "delivered", Some(<<src, msg>>), FALSE)

(* SwarmEvent::ConnectionEstablished; maybe_ip is the Option of the remote IP *)
on_connection_established(n, peer_id, maybe_ip, now) ==
  IF n.allowlist # {} /\ peer_id \notin n.allowlist
  THEN Handled(n, "not_allowed", None, TRUE)
  ELSE
    LET banned == is_banned(n.scoring, peer_id, now)
        n1 == [n EXCEPT !.scoring = banned.peers]
        rated == [n1 EXCEPT !.peer_rates =
                    MapInsert(@, peer_id, EntryOr(@, peer_id, RateWindow_new(now)))]
    IN IF banned.result
       THEN Handled([n1 EXCEPT !.metrics = Inc(@, "p2p_banned_total")],
                    "banned", None, TRUE)
       ELSE IF maybe_ip = None
       THEN Handled(rated, "connected", None, FALSE)
       ELSE
         LET ip == CHOOSE i \in maybe_ip : TRUE
             entry == EntryOr(n.peers_by_ip, ip, {})
         IN IF Cardinality(entry) >= n.max_peers_per_ip
            THEN Handled([n1 EXCEPT !.peers_by_ip = MapInsert(@, ip, entry)],
                         "ip_cap", None, TRUE)
            ELSE Handled([rated EXCEPT
                            !.peers_by_ip = MapInsert(@, ip, entry \cup {peer_id}),
                            !.peer_backoff =
                              MapInsert(@, peer_id,
                                        EntryOr(@, peer_id, BackoffState_new(now)))],
                         "connected", None, FALSE)

MapRemove(m, k) == [x \in (DOMAIN m) \ {k} |-> m[x]]

(* SwarmEvent::ConnectionClosed *)
on_connection_closed(n, peer_id, maybe_ip) ==
  LET by_ip ==
        IF maybe_ip = None THEN n.peers_by_ip
        ELSE LET ip == CHOOSE i \in maybe_ip : TRUE
             IN IF ip \notin DOMAIN n.peers_by_ip THEN n.peers_by_ip
                ELSE IF n.peers_by_ip[ip] \ {peer_id} = {}
                THEN MapRemove(n.peers_by_ip, ip)
                ELSE [n.peers_by_ip EXCEPT ![ip] = @ \ {peer_id}]
  IN Handled([n EXCEPT !.peers_by_ip = by_ip,
                       !.peer_rates = MapRemove(@, peer_id),
                       !.peer_backoff = MapRemove(@, peer_id)],
             "closed", None, FALSE)

----------------------------------------------------------------------------
(* Merkle tree (src/src/core/state/merkle.rs).  A key is a sequence of bytes, *)
(* a value stands for a byte string; a list of pairs is a sequence of         *)
(* <<key, value>>; a Hash32 is the digest term sha256(..) or ZeroHash; a      *)
(* MerkleProof is [leaf, path] with path a sequence of [side, sibling].       *)
(* Indices are 0-based as in the source.                                      *)

LEAF_DOMAIN == "Amunchain-State-Leaf-v1"
NODE_DOMAIN == "Amunchain-State-Node-v1"

(* [0u8; 32] *)
ZeroHash == <<"zero">>

(* fn h *)
h32(data) == sha256(data)

(* Faulty variant: the value is left out of the leaf *)
hash_leaf_KeyOnly(key, value) == h32(<<LEAF_DOMAIN, h32(key)>>)

(* The buffers are the domain followed by two 32-byte digests *)
hash_leaf(key, value) == h32(<<LEAF_DOMAIN, h32(key), h32(value)>>)

hash_node(left, right) == h32(<<NODE_DOMAIN, left, right>>)

Leaves(ps_) == [i \in 1..Len(ps_) |-> hash_leaf(ps_[i][1], ps_[i][2])]

(* One round of the pairing loop: the last node of an odd level is paired *)
(* with itself                                                             *)
NextLevel(level) ==
  [j \in 1..((Len(level) + 1) \div 2) |->
     hash_node(level[2 * j - 1],
               IF 2 * j <= Len(level) THEN level[2 * j] ELSE level[2 * j - 1])]

RECURSIVE Reduce(_)
Reduce(level) == IF Len(level) > 1 THEN Reduce(NextLevel(level)) ELSE level[1]

merkle_root_sorted(ps_) == IF ps_ = <<>> THEN ZeroHash ELSE Reduce(Leaves(ps_))

(* Faulty variant: the sibling of a left node is recorded as a left sibling *)
RECURSIVE Climb_SameSide(_, _, _)
Climb_SameSide(level, idx, path) ==
  IF Len(level) > 1
  THEN LET is_right == idx % 2 = 1
           sib_idx == IF is_right THEN idx - 1 ELSE idx + 1
           sibling == IF sib_idx < Len(level) THEN level[sib_idx + 1] ELSE level[idx + 1]
       IN Climb_SameSide(NextLevel(level), idx \div 2,
                         Append(path, [side |-> "Left", sibling |-> sibling]))
  ELSE path

(* The `while level.len() > 1` loop of merkle_proof_sorted *)
RECURSIVE Climb(_, _, _)
Climb(level, idx, path) ==
  IF Len(level) > 1
  THEN LET is_right == idx % 2 = 1
           sib_idx == IF is_right THEN idx - 1 ELSE idx + 1
           sibling == IF sib_idx < Len(level) THEN level[sib_idx + 1] ELSE level[idx + 1]
       IN Climb(NextLevel(level), idx \div 2,
                Append(path, [side |-> IF is_right THEN "Left" ELSE "Right",
                              sibling |-> sibling]))
  ELSE path

(* Some(MerkleProof) or None *)
merkle_proof_sorted(ps_, index) ==
  IF ps_ = <<>> \/ index >= Len(ps_) THEN None
  ELSE Some([leaf |-> Leaves(ps_)[index + 1],
             path |-> Climb(Leaves(ps_), index, <<>>)])

RECURSIVE Fold(_, _)
Fold(cur, path) ==
  IF path = <<>> THEN cur
  ELSE Fold(IF Head(path).side = "Left" THEN hash_node(Head(path).sibling, cur)
            ELSE hash_node(cur, Head(path).sibling),
            Tail(path))

verify_proof(root, proof) == Fold(proof.leaf, proof.path) = root

----------------------------------------------------------------------------
(* PersistentState (src/src/core/state/persistent_state.rs).  A sled tree is *)
(* a function from keys to values; db.iter() hands out the pairs in an order  *)
(* the model leaves open, given as a sequence of the tree's keys.             *)

StoreIds == {1, 2}

(* Ord of Vec<u8> and of [u8]: lexicographic, a proper prefix is smaller *)
RECURSIVE BytesLess(_, _)
BytesLess(a, b) ==
  IF b = <<>> THEN FALSE
  ELSE IF a = <<>> THEN TRUE
  ELSE IF Head(a) # Head(b) THEN Head(a) < Head(b)
  ELSE BytesLess(Tail(a), Tail(b))

(* Faulty variant: the pairs are left in the order of the iteration *)
sort_by_None(ps_) == ps_

(* Insert pair x behind the pairs of `sorted` whose key is not greater *)
RECURSIVE InsertSorted(_, _)
InsertSorted(sorted, x) ==
  IF sorted = <<>> THEN <<x>>
  ELSE IF BytesLess(x[1], Head(sorted)[1]) THEN <<x>> \o sorted
  ELSE <<Head(sorted)>> \o InsertSorted(Tail(sorted), x)

RECURSIVE SortFrom(_, _)
SortFrom(sorted, rest) ==
  IF rest = <<>> THEN sorted ELSE SortFrom(InsertSorted(sorted, Head(rest)), Tail(rest))

(* pairs.sort_by(|a, b| a.0.cmp(&b.0)): a stable sort by key *)
sort_by(ps_) == SortFrom(<<>>, ps_)

(* The Vec collected from db.iter() when it yields the keys in `order` *)
Collect(db, order) == [i \in 1..Len(order) |-> <<order[i], db[order[i]]>>]

get(db, key) == IF key \in DOMAIN db THEN Some(db[key]) ELSE None

(* The ops of one transaction applied in order *)
RECURSIVE ApplyOps(_, _)
ApplyOps(db, ops) ==
  IF ops = <<>> THEN db
  ELSE ApplyOps(IF Head(ops).op = "Put" THEN MapInsert(db, Head(ops).key, Head(ops).value)
                ELSE MapRemove(db, Head(ops).key),
                Tail(ops))

(* `outcome` is what sled makes of the transaction: "Ok", "TxConflict" or *)
(* "DbIo"; a failed transaction leaves the tree as it was                  *)
commit_atomic(db, ops, outcome) ==
  [db |-> IF outcome = "Ok" THEN ApplyOps(db, ops) ELSE db, result |-> outcome]

(* Ok(root) as Some(root); `io` is FALSE when an item of the iteration fails *)
state_root(db, order, io) ==
  IF ~io THEN None ELSE Some(merkle_root_sorted(sort_by(Collect(db, order))))

(* Faulty variant: the search goes on in the wrong half *)
RECURSIVE binary_search_by_Reversed(_, _, _, _)
binary_search_by_Reversed(ps_, key, lo, hi) ==
  IF lo >= hi THEN None
  ELSE LET mid == lo + (hi - lo) \div 2
           k == ps_[mid + 1][1]
       IN IF k = key THEN Some(mid)
          ELSE IF BytesLess(key, k) THEN binary_search_by_Reversed(ps_, key, mid + 1, hi)
          ELSE binary_search_by_Reversed(ps_, key, lo, mid)

(* slice::binary_search_by on pairs[lo..hi) for the key: Some(index) or None *)
RECURSIVE binary_search_by(_, _, _, _)
binary_search_by(ps_, key, lo, hi) ==
  IF lo >= hi THEN None
  ELSE LET mid == lo + (hi - lo) \div 2
           k == ps_[mid + 1][1]
       IN IF k = key THEN Some(mid)
          ELSE IF BytesLess(k, key) THEN binary_search_by(ps_, key, mid + 1, hi)
          ELSE binary_search_by(ps_, key, lo, mid)

(* Ok(Some((k, v, root, proof))) as [result |-> "Ok", value |-> Some(..)],  *)
(* Ok(None) as [result |-> "Ok", value |-> None], Err(DbIo) as              *)
(* [result |-> "DbIo", value |-> None]                                       *)
prove_key(db, key, order, io) ==
  IF ~io THEN [result |-> "DbIo", value |-> None]
  ELSE IF get(db, key) = None THEN [result |-> "Ok", value |-> None]
  ELSE LET ps_ == sort_by(Collect(db, order))
           root == merkle_root_sorted(ps_)
           idx == binary_search_by(ps_, key, 0, Len(ps_))
       IN IF idx = None THEN [result |-> "Ok", value |-> None]
          ELSE LET i == CHOOSE x \in idx : TRUE
                   proof == merkle_proof_sorted(ps_, i)
               IN IF proof = None THEN [result |-> "Ok", value |-> None]
                  ELSE [result |-> "Ok",
                        value |-> Some([key |-> ps_[i + 1][1], val |-> ps_[i + 1][2],
                                        root |-> root,
                                        proof |-> CHOOSE x \in proof : TRUE])]

----------------------------------------------------------------------------
(* Keystore (src/src/core/security/keystore.rs) *)

MaxTasks == 2
Tasks == 1..MaxTasks

(* The limit of Keystore::open is 10,000 a second; the model runs the same *)
(* limiter with the limits 1..MaxLimit                                     *)
MaxLimit == 2
MaxCalls == 3

RateLimiter_new(limit, now) == [window_start |-> now, count |-> 0, limit_per_sec |-> limit]

(* Faulty variant: the count may pass the limit by one *)
RateLimiter_allow_OffByOne(l, now) ==
  LET w == IF now - l.window_start >= MsPerSec
           THEN [l EXCEPT !.window_start = now, !.count = 0]
           ELSE l
  IN IF w.count > w.limit_per_sec
     THEN [limiter |-> w, result |-> FALSE]
     ELSE [limiter |-> [w EXCEPT !.count = @ + 1], result |-> TRUE]

(* RateLimiter::allow when Instant::now() is `now`: the limiter afterwards *)
(* and the result.  count < limit_per_sec where it is incremented, so the   *)
(* saturating_add never saturates                                           *)
RateLimiter_allow(l, now) ==
  LET w == IF now - l.window_start >= MsPerSec
           THEN [l EXCEPT !.window_start = now, !.count = 0]
           ELSE l
  IN IF w.count >= w.limit_per_sec
     THEN [limiter |-> w, result |-> FALSE]
     ELSE [limiter |-> [w EXCEPT !.count = @ + 1], result |-> TRUE]

----------------------------------------------------------------------------
(* Inputs *)

(* A key outside every validator set, used to forge signatures *)
Attacker == MaxValidators + 1

MkVote(height, round, meta, block_hash, voter, signer) ==
  LET body == [height |-> height, round |-> round, epoch |-> meta.epoch,
               msg_counter |-> meta.msg_counter, sent_ts_ms |-> meta.sent_ts_ms,
               ttl_ms |-> meta.ttl_ms, block_hash |-> block_hash, voter |-> voter]
  IN [height |-> height, round |-> round, epoch |-> meta.epoch,
      msg_counter |-> meta.msg_counter, sent_ts_ms |-> meta.sent_ts_ms,
      ttl_ms |-> meta.ttl_ms, block_hash |-> block_hash, voter |-> voter,
      signature |-> Sign(signer, TranscriptOf(body))]

(* Votes signed by their voter or by the attacker's key *)
VoteSet(voters, rounds, metas) ==
  UNION {{MkVote(h, r, m, bh, vo, vo), MkVote(h, r, m, bh, vo, Attacker)} :
           <<h, r, m, bh, vo>> \in Heights \X rounds \X metas \X Hashes \X voters}

CorrectlySigned(v) == verify_pubkey_bytes(v.voter, TranscriptOf(v), v.signature)

(* The transcript of the version vote_signing_bytes_auto does not select *)
OtherTranscript(height, round, meta, block_hash, voter) ==
  IF meta = LegacyMeta
  THEN vote_signing_bytes_v2(height, round, 0, 0, 0, 0, block_hash, voter)
  ELSE vote_signing_bytes_v1(height, round, block_hash, voter)

(* A vote its voter signed over the transcript of the other version *)
MkVoteCross(height, round, meta, block_hash, voter) ==
  [MkVote(height, round, meta, block_hash, voter, voter) EXCEPT
     !.signature = Sign(voter, OtherTranscript(height, round, meta, block_hash, voter))]

(* A commit signed by `signers`.  mode <<"good", 0>>: every signer signed its  *)
(* own transcript; <<"forged", b>>: the signature of b was made with the       *)
(* attacker's key; <<"cross", 0>>: every signer signed the other version's     *)
(* transcript                                                                  *)
MkCommit(height, round, meta, block_hash, signers, mode) ==
  [height |-> height, round |-> round, epoch |-> meta.epoch,
   msg_counter |-> meta.msg_counter, sent_ts_ms |-> meta.sent_ts_ms,
   ttl_ms |-> meta.ttl_ms, block_hash |-> block_hash,
   signatures |->
     [vid \in signers |->
        IF mode[1] = "cross"
        THEN Sign(vid, OtherTranscript(height, round, meta, block_hash, vid))
        ELSE Sign(IF mode = <<"forged", vid>> THEN Attacker ELSE vid,
                  vote_signing_bytes_auto(height, round, meta.epoch, meta.msg_counter,
                                          meta.sent_ts_ms, meta.ttl_ms, block_hash, vid))]]

(* Legacy in the sense of check_replay_counter *)
IsLegacy(v) == v.epoch = 0 /\ v.msg_counter = 0 /\ v.sent_ts_ms = 0

----------------------------------------------------------------------------
(* State machine *)

Slots == Heights \X Rounds

NoCall == [op |-> "none", input |-> <<>>, now |-> 0, result |-> "none"]

InitCore(vals, reqs, log) ==
  /\ validators = vals
  /\ require_epoch \in reqs
  /\ votes = EmptyMap
  /\ replay = EmptyMap
  /\ emitted = [s \in Slots |-> <<>>]
  /\ slashed = {}
  /\ accepted = [vo \in 1..MaxValidators |-> EmptyMap]
  /\ log_calls = log
  /\ last_call = NoCall

NoMetrics ==
  [c \in {"p2p_replay_dropped_total", "p2p_invalid_msg_total", "p2p_rate_limited_total",
          "p2p_reputation_throttled_total", "p2p_banned_total"} |-> 0]

(* The event loop's state when spawn_p2p enters the loop *)
FreshNet(allow, ip_cap, rate, build) ==
  [allowlist |-> allow, max_peers_per_ip |-> ip_cap, max_msg_per_sec |-> rate,
   production |-> build, peers_by_ip |-> EmptyMap, peer_rates |-> EmptyMap,
   peer_backoff |-> EmptyMap, replay |-> ReplayCache_new(ReplayCap),
   scoring |-> EmptyMap, metrics |-> NoMetrics]

(* The node at Instant 0 with the event loop in state n and no connection open *)
StartAt(n) ==
  /\ allowlist = n.allowlist
  /\ max_peers_per_ip = n.max_peers_per_ip
  /\ max_msg_per_sec = n.max_msg_per_sec
  /\ production = n.production
  /\ peers_by_ip = n.peers_by_ip
  /\ peer_rates = n.peer_rates
  /\ peer_backoff = n.peer_backoff
  /\ replay_cache = n.replay
  /\ peers = n.scoring
  /\ metrics = n.metrics
  /\ clock = 0
  /\ inbound = <<>>
  /\ conns = {}
  /\ conn_seq = 0
  /\ doomed = {}
  /\ admitted = {}
  /\ bumped = EmptyMap

(* spawn_p2p before the first event, for the configurations and builds given *)
InitTransport(allows, ip_caps, rates, builds) ==
  \E allow \in allows, ip_cap \in ip_caps, rate \in rates, build \in builds :
    StartAt(FreshNet(allow, ip_cap, rate, build))

(* PersistentState::open on fresh directories; the Merkle functions are *)
(* given one of `lists`                                                  *)
InitStoreWith(lists) ==
  /\ stores = [s \in StoreIds |-> EmptyMap]
  /\ pairs \in lists

InitStore == InitStoreWith({<<>>})

(* Keystore::open at Instant 0, no sign call yet *)
InitKeystore(limit) ==
  /\ limiter = RateLimiter_new(limit, 0)
  /\ mutex = None
  /\ audit = <<>>
  /\ tasks = [t \in Tasks |-> [pc |-> "idle", call |-> 0]]
  /\ signed = <<>>
  /\ calls = <<>>

InitLogging(vals, reqs, log) ==
  /\ InitCore(vals, reqs, log)
  /\ InitTransport({{}}, {1}, {1}, {FALSE})
  /\ InitStore
  /\ InitKeystore(1)

InitWith(vals, reqs) == InitLogging(vals, reqs, FALSE)

(* History of the non-legacy votes a voter got accepted, per epoch *)
AcceptedAfter(acc, v, result) ==
  IF result = "Ok" /\ ~IsLegacy(v)
  THEN LET old == acc[v.voter]
           new == IF v.epoch \in DOMAIN old
                  THEN [msg_counter |-> IF v.msg_counter > old[v.epoch].msg_counter
                                        THEN v.msg_counter ELSE old[v.epoch].msg_counter,
                        sent_ts_ms |-> IF v.sent_ts_ms > old[v.epoch].sent_ts_ms
                                       THEN v.sent_ts_ms ELSE old[v.epoch].sent_ts_ms]
                  ELSE [msg_counter |-> v.msg_counter, sent_ts_ms |-> v.sent_ts_ms]
       IN [acc EXCEPT ![v.voter] = MapInsert(old, v.epoch, new)]
  ELSE acc

(* What process_vote_verified(v) does and returns in the current state *)
Outcome(v, now) == process_vote_verified(votes, replay, validators, require_epoch, v, now)

(* One call of TideFinalizer::process_vote_verified(v), the clock reading `now` *)
ProcessVoteVerified(v, now) ==
  LET r == Outcome(v, now)
  IN /\ votes' = r.votes
     /\ replay' = r.replay
     /\ emitted' = IF r.commit = None THEN emitted
                   ELSE [emitted EXCEPT ![<<v.height, v.round>>] =
                           Append(@, CHOOSE c \in r.commit : TRUE)]
     /\ slashed' = IF r.slashed = <<>> THEN slashed
                   ELSE slashed \cup {<<v.height, v.round, Len(emitted[<<v.height, v.round>>])>>}
     /\ accepted' = AcceptedAfter(accepted, v, r.result)
     /\ last_call' = IF log_calls
                      THEN [op |-> "vote", input |-> v, now |-> now, result |-> r.result]
                      ELSE last_call
     /\ UNCHANGED <<validators, require_epoch, log_calls, peers, clock, transport_vars,
                     store_vars, keystore_vars>>

(* One call of TideFinalizer::process_commit_verified(c), the clock reading `now` *)
ProcessCommitVerified(c, now) ==
  /\ last_call' = IF log_calls
                   THEN [op |-> "commit", input |-> c, now |-> now,
                         result |-> process_commit_verified(validators, require_epoch, c, now)]
                   ELSE last_call
  /\ UNCHANGED <<transport_vars, store_vars, keystore_vars>>
  /\ UNCHANGED <<validators, require_epoch, votes, replay, emitted, slashed, accepted,
                 log_calls, peers, clock>>

(* SpecTide: 1..MaxValidators validators voting in round 0 on two hashes with *)
(* legacy or replay-sealed metadata; default build (require_epoch unset),     *)
(* working clock                                                              *)
SealedTs == NowMs
MetasTide == {LegacyMeta, VoteMeta(1, 1, SealedTs, max_ttl_ms)}
VotesTide == VoteSet(1..MaxValidators, {0}, MetasTide)

InitTide == \E n \in 1..MaxValidators : InitWith(1..n, {FALSE})
NextTide == \E v \in VotesTide : ProcessVoteVerified(v, NowMs)
SpecTide == InitTide /\ [][NextTide]_vars

(* SpecReplay: one validator voting in rounds 0..MaxRound with legacy and     *)
(* replay-sealed metadata of two epochs, counters 0..2 and two timestamps,    *)
(* with and without require_epoch, the clock working or unavailable           *)
EarlyTs == NowMs - max_clock_skew_ms
MetasReplay ==
  {LegacyMeta,
   VoteMeta(1, 0, EarlyTs, max_ttl_ms),
   VoteMeta(1, 1, SealedTs, max_ttl_ms),
   VoteMeta(1, 2, SealedTs, max_ttl_ms),
   VoteMeta(2, 1, SealedTs, max_ttl_ms)}
VotesReplay == VoteSet({1}, Rounds, MetasReplay)

InitReplay == InitWith({1}, BOOLEAN)
NextReplay == \E v \in VotesReplay, now \in NowValues : ProcessVoteVerified(v, now)
SpecReplay == InitReplay /\ [][NextReplay]_vars

(* SpecMember: fewer validators than voting ids; legacy votes on two hashes,  *)
(* own or forged signature; every call is kept in last_call                   *)
VotesMember == VoteSet(1..MaxValidators, {0}, {LegacyMeta})

InitMember == \E n \in 1..(MaxValidators - 1) : InitLogging(1..n, {FALSE}, TRUE)
NextMember == \E v \in VotesMember : ProcessVoteVerified(v, NowMs)
SpecMember == InitMember /\ [][NextMember]_vars

(* SpecVerify: the finalizer of MaxValidators validators given votes of a      *)
(* validator and of a non-validator and commits with every signer set, with    *)
(* own, forged and cross-version signatures and with timestamps and ttls on    *)
(* both sides of the freshness limits; every call is kept in last_call         *)
FutureTs == NowMs + max_clock_skew_ms
MetasVerify ==
  {LegacyMeta,
   VoteMeta(0, 0, 0, max_ttl_ms),
   VoteMeta(0, 1, SealedTs, max_ttl_ms),
   VoteMeta(1, 1, SealedTs, max_ttl_ms)}
VotesVerify ==
  UNION {{MkVote(h, 0, m, 1, vo, vo), MkVoteCross(h, 0, m, 1, vo)} :
           <<h, m, vo>> \in Heights \X MetasVerify \X {1, Attacker}}

SignerModes(meta, signers) ==
  {<<"good", 0>>, <<"cross", 0>>} \cup
  (IF meta = LegacyMeta THEN {} ELSE {<<"forged", b>> : b \in signers})
CommitsSigners ==
  UNION {{MkCommit(h, 0, m, 1, S, mode) : mode \in SignerModes(m, S)} :
           <<h, m, S>> \in Heights \X {LegacyMeta, VoteMeta(1, 1, SealedTs, max_ttl_ms)}
                                  \X (SUBSET (1..Attacker))}

SentValues == {0, EarlyTs - 1, EarlyTs, FutureTs, FutureTs + 1}
TtlValues == {0, max_ttl_ms, max_ttl_ms + 1}
CommitsFresh ==
  {MkCommit(h, 0, VoteMeta(e, 1, ts, ttl), 1, 1..MaxValidators, <<"good", 0>>) :
     <<h, e, ts, ttl>> \in Heights \X {0, 1} \X SentValues \X TtlValues}

InitVerify == InitLogging(1..MaxValidators, BOOLEAN, TRUE)
NextVerify ==
  \/ \E v \in VotesVerify, now \in NowValues : ProcessVoteVerified(v, now)
  \/ \E c \in CommitsSigners : ProcessCommitVerified(c, NowMs)
  \/ \E c \in CommitsFresh, now \in NowValues : ProcessCommitVerified(c, now)
SpecVerify == InitVerify /\ [][NextVerify]_vars

(* SpecSafety: the finalizer of a ConsensusDriver of up to MaxValidators      *)
(* validators, built with or without the feature "production", is given the   *)
(* votes of every validator on two hashes with legacy or replay-sealed        *)
(* metadata, a vote of validator 1 sealed without an epoch, and votes of       *)
(* validator 1 signed with the attacker's key                                 *)
NoEpochMeta == VoteMeta(0, 1, SealedTs, max_ttl_ms)
VotesSafety ==
  {MkVote(h, 0, m, bh, vo, vo) :
     <<h, m, bh, vo>> \in Heights \X MetasTide \X Hashes \X (1..MaxValidators)}
  \cup {MkVote(h, 0, m, bh, 1, Attacker) : <<h, m, bh>> \in Heights \X MetasTide \X Hashes}
  \cup {MkVote(h, 0, NoEpochMeta, 1, 1, 1) : h \in Heights}

InitSafety ==
  \E n \in 0..MaxValidators, build \in BOOLEAN :
    LET d == ConsensusDriver_new(1..n, build)
    IN /\ d.result = "Ok"
       /\ d.tide.votes = EmptyMap /\ d.tide.replay = EmptyMap
       /\ InitWith(d.tide.cfg.validators, {d.tide.cfg.require_epoch})
NextSafety == \E v \in VotesSafety : ProcessVoteVerified(v, NowMs)
SpecSafety == InitSafety /\ [][NextSafety]_vars

(* SpecPeer: one peer observed, read and probed at Instants that never go    *)
(* back, with deltas from i32::MIN to i32::MAX                                *)
Peers == {1}
Deltas == {I32Min, 0, 100, I32Max}
TimeSteps == {0, 30 * MsPerSec, 90 * MsPerSec}
Times == {t \in {clock + d : d \in TimeSteps} : t <= MaxTime}

PeerCall(op, p, delta, now, r) ==
  /\ peers' = r.peers
  /\ clock' = now
  /\ last_call' = IF log_calls
                   THEN [op |-> op, input |-> [peer |-> p, delta |-> delta], now |-> now,
                         result |-> r.result]
                   ELSE last_call
  /\ UNCHANGED <<transport_vars, store_vars, keystore_vars>>
  /\ UNCHANGED <<validators, require_epoch, votes, replay, emitted, slashed, accepted,
                 log_calls>>

ObserveGood(p, now, delta) ==
  PeerCall("observe_good", p, delta, now, observe_good(peers, p, now, delta))
ObserveBad(p, now, delta) ==
  \E checked \in BOOLEAN :
    PeerCall("observe_bad", p, delta, now, observe_bad(peers, p, now, delta, checked))
Score(p, now) == PeerCall("score", p, 0, now, score(peers, p, now))
IsBanned(p, now) == PeerCall("is_banned", p, 0, now, is_banned(peers, p, now))

InitPeer == InitLogging({1}, {FALSE}, TRUE)
NextPeer ==
  \E p \in Peers : \E now \in Times :
    \/ \E delta \in Deltas : ObserveGood(p, now, delta)
    \/ \E delta \in Deltas : ObserveBad(p, now, delta)
    \/ Score(p, now)
    \/ IsBanned(p, now)
SpecPeer == InitPeer /\ [][NextPeer]_vars

----------------------------------------------------------------------------
(* The event loop of the transport *)

Net ==
  [allowlist |-> allowlist, max_peers_per_ip |-> max_peers_per_ip,
   max_msg_per_sec |-> max_msg_per_sec, production |-> production,
   peers_by_ip |-> peers_by_ip, peer_rates |-> peer_rates,
   peer_backoff |-> peer_backoff, replay |-> replay_cache, scoring |-> peers,
   metrics |-> metrics]

(* The open connections of a peer *)
ConnsOf(cs, p) == {c \in cs : c.peer = p}

(* The model stops counting at MaxInvalid invalid messages and at MaxCount *)
(* events of every other kind                                              *)
MetricCap ==
  [k \in DOMAIN NoMetrics |-> IF k = "p2p_invalid_msg_total" THEN MaxInvalid ELSE MaxCount]

(* The stages at which on_message bumps the sender's backoff *)
PenaltyStages == {"oversize", "rate", "replay", "decode", "legacy"}

(* One event handled at `now`: r is what the handler returns *)
Transport(op, input, now, r) ==
  /\ \A k \in DOMAIN r.net.metrics : r.net.metrics[k] <= MetricCap[k]
  /\ peers_by_ip' = r.net.peers_by_ip
  /\ peer_rates' = r.net.peer_rates
  /\ peer_backoff' = r.net.peer_backoff
  /\ replay_cache' = r.net.replay
  /\ peers' = r.net.scoring
  /\ metrics' = r.net.metrics
  /\ clock' = now
  /\ last_call' = IF log_calls
                   THEN [op |-> op, input |-> input, now |-> now, result |-> r.stage]
                   ELSE last_call
  /\ bumped' = IF log_calls /\ r.stage \in PenaltyStages
                THEN MapInsert(bumped, input.src, r.net.peer_backoff[input.src])
                ELSE bumped
  /\ UNCHANGED <<allowlist, max_peers_per_ip, max_msg_per_sec, production>>
  /\ UNCHANGED <<finalizer_vars, log_calls, store_vars, keystore_vars>>

(* A connection of peer_id from maybe_ip is reported as established; a refused *)
(* peer has all its connections closed by the swarm, which reports it later    *)
ConnectionEstablished(peer_id, maybe_ip, now) ==
  LET r == on_connection_established(Net, peer_id, maybe_ip, now)
      c == [peer |-> peer_id, ip |-> maybe_ip, id |-> conn_seq + 1]
  IN /\ conn_seq < MaxConns
     /\ Transport("established", c, now, r)
     /\ conns' = conns \cup {c}
     /\ conn_seq' = conn_seq + 1
     /\ doomed' = IF r.disconnect THEN doomed \cup ConnsOf(conns \cup {c}, c.peer)
                  ELSE doomed
     /\ admitted' = IF r.stage = "connected" THEN admitted \cup {c} ELSE admitted
     /\ UNCHANGED inbound

(* A connection is reported as closed, by the remote end or after a disconnect *)
ConnectionClosed(c) ==
  /\ c \in conns
  /\ Transport("closed", c, clock, on_connection_closed(Net, c.peer, c.ip))
  /\ conns' = conns \ {c}
  /\ doomed' = doomed \ {c}
  /\ admitted' = admitted \ {c}
  /\ UNCHANGED <<inbound, conn_seq>>

(* A gossip message forwarded by a connected peer; the send on the inbound *)
(* channel waits while the channel is full                                 *)
GossipMessage(src, data, now, jitter) ==
  LET r == on_message(Net, src, data, now, jitter)
  IN /\ ConnsOf(conns, src) # {}
     /\ r.deliver # None => Len(inbound) < InboundCap
     /\ Transport("message", [src |-> src, data |-> data], now, r)
     /\ inbound' = IF r.deliver = None THEN inbound
                   ELSE Append(inbound, CHOOSE m \in r.deliver : TRUE)
     /\ doomed' = IF r.disconnect THEN doomed \cup ConnsOf(conns, src) ELSE doomed
     /\ UNCHANGED <<conns, conn_seq, admitted>>

(* The consensus driver takes the next message from the inbound channel *)
InboundRecv ==
  /\ inbound # <<>>
  /\ inbound' = Tail(inbound)
  /\ UNCHANGED <<finalizer_vars, log_calls, last_call, peers, clock, allowlist,
                 max_peers_per_ip, max_msg_per_sec, production, peers_by_ip, peer_rates,
                 peer_backoff, replay_cache, metrics, conns, conn_seq, doomed, admitted,
                 bumped,
                 store_vars, keystore_vars>>

(* Wire payloads *)
WireVote(epoch, msg_counter, sent_ts_ms) ==
  [kind |-> "Vote",
   body |-> MkVote(1, 0, VoteMeta(epoch, msg_counter, sent_ts_ms, 0), 1, 1, 1)]
WireCommit(epoch, msg_counter, sent_ts_ms) ==
  [kind |-> "Commit",
   body |-> MkCommit(1, 0, VoteMeta(epoch, msg_counter, sent_ts_ms, 0), 1, {1},
                     <<"good", 0>>)]
Encoded(msg, len) == [len |-> len, bytes |-> <<"bincode", msg>>]
Junk(k, len) == [len |-> len, bytes |-> <<"junk", k>>]

(* The Instants of the transport's events never go back *)
TimesAfter(steps) == {t \in {clock + d : d \in steps} : t <= MaxUptime}

(* SpecGossip: one peer behind one address sends payloads of every kind to a *)
(* node without allowlist, in both build profiles                            *)
GossipPayloads ==
  {Encoded(WireVote(0, 0, 0), SmallLen), Encoded(WireVote(1, 1, NowMs), SmallLen),
   Junk(1, SmallLen), Junk(2, MAX_WIRE_MSG_BYTES + 1)}
GossipSteps == {0, MsPerSec}
GossipPeers == {1}

(* The event loop after k rounds of: peer 1 connects, sends an oversized *)
(* payload and loses its connection, all within the first millisecond     *)
RECURSIVE Offences(_, _)
Offences(n, k) ==
  IF k = 0 THEN n
  ELSE LET c == on_connection_established(Offences(n, k - 1), 1, Some(1), 0).net
           m == on_message(c, 1, Junk(2, MAX_WIRE_MSG_BYTES + 1), 0, 0).net
       IN on_connection_closed(m, 1, Some(1)).net

(* The node is fresh, or peer 1 is one oversized payload away from its ban *)
InitGossip ==
  /\ InitCore({1}, {FALSE}, FALSE)
  /\ \E build \in BOOLEAN, k \in {0, 9} :
       StartAt(Offences(FreshNet({}, 1, MaxRate, build), k))
  /\ InitStore
  /\ InitKeystore(1)
NextGossip ==
  \/ \E now \in TimesAfter(GossipSteps) : ConnectionEstablished(1, Some(1), now)
  \/ \E c \in conns : ConnectionClosed(c)
  \/ \E data \in GossipPayloads, now \in TimesAfter(GossipSteps) :
       GossipMessage(1, data, now, MaxJitter)
  \/ InboundRecv
SpecGossip == InitGossip /\ [][NextGossip]_vars

(* SpecConn: three peers connect from one address or from none, to a node *)
(* with or without an allowlist and with each per-IP cap up to MaxIpPeers  *)
ConnPeers == {1, 2, 3}
ConnAllowed == {1, 2}
ConnIps == {Some(1), None}
ConnPayloads == {Encoded(WireVote(1, 1, NowMs), SmallLen)}
ConnSteps == {0, MsPerSec}
InitConn ==
  /\ InitCore({1}, {FALSE}, FALSE)
  /\ InitTransport({{}, ConnAllowed}, 1..MaxIpPeers, {MaxRate}, {FALSE})
  /\ InitStore
  /\ InitKeystore(1)
NextConn ==
  \/ \E p \in ConnPeers, ip \in ConnIps, now \in TimesAfter(ConnSteps) :
       ConnectionEstablished(p, ip, now)
  \/ \E c \in conns : ConnectionClosed(c)
  \/ \E src \in ConnPeers, data \in ConnPayloads, now \in TimesAfter(ConnSteps) :
       GossipMessage(src, data, now, 0)
  \/ InboundRecv
SpecConn == InitConn /\ [][NextConn]_vars

(* SpecMerkle: the Merkle functions are applied to a sorted list of up to  *)
(* MaxPairs pairs with distinct one-byte keys and one-byte values;         *)
(* verify_proof is given genuine proofs and proofs or roots changed in one  *)
(* place                                                                    *)
MaxPairs == 4
MerkleKeys == 1..MaxPairs
MerkleValues == {1, 2}

(* The values a changed pair may carry *)
TamperValues == MerkleValues \cup {Cardinality(MerkleValues) + 1}

(* The pairs of value function f in the order of their keys *)
SortedPairs(f) ==
  [i \in 1..Cardinality(DOMAIN f) |->
     LET k == CHOOSE x \in DOMAIN f : Cardinality({y \in DOMAIN f : y < x}) = i - 1
     IN <<(<<k>>), (<<f[k]>>)>>]

SortedLists == UNION {{SortedPairs(f) : f \in [S -> MerkleValues]} : S \in SUBSET MerkleKeys}

(* Every node of the tree above `level`, the level included *)
RECURSIVE AllNodes(_)
AllNodes(level) ==
  {level[i] : i \in 1..Len(level)}
    \cup (IF Len(level) > 1 THEN AllNodes(NextLevel(level)) ELSE {})

(* The leaves of the pairs of ps_ under each other value *)
OtherLeaves(ps_) ==
  {hash_leaf(ps_[i][1], <<v>>) : i \in 1..Len(ps_), v \in TamperValues}

HashPool(ps_) == {ZeroHash} \cup AllNodes(Leaves(ps_)) \cup OtherLeaves(ps_)

(* The root of ps_ and the proof of its index *)
Genuine(ps_, index) ==
  [root |-> merkle_root_sorted(ps_),
   proof |-> CHOOSE x \in merkle_proof_sorted(ps_, index) : TRUE,
   kind |-> "genuine", index |-> index]

(* The genuine root and proof of index changed in exactly one place: the  *)
(* value (the leaf is recomputed from the key and the new value), the root, *)
(* or one sibling of the path, the replacements drawn from pool            *)
Forged(ps_, index, pool) ==
  LET g == Genuine(ps_, index)
      key == ps_[index + 1][1]
      value == ps_[index + 1][2]
  IN {[g EXCEPT !.proof.leaf = hash_leaf(key, <<v>>), !.kind = "value"] :
        v \in TamperValues \ {value[1]}}
     \cup {[g EXCEPT !.root = x, !.kind = "root"] : x \in pool \ {g.root}}
     \cup UNION {{[g EXCEPT !.proof.path[j].sibling = x, !.kind = "sibling"] :
                    x \in pool \ {g.proof.path[j].sibling}} :
                 j \in 1..Len(g.proof.path)}

(* A call of a Merkle function: nothing but the record of the call changes *)
MerkleCall(op, input, result) ==
  /\ last_call' = [op |-> op, input |-> input, now |-> clock, result |-> result]
  /\ UNCHANGED <<finalizer_vars, log_calls, peers, clock, transport_vars,
                 store_vars, keystore_vars>>

MerkleRootSorted == MerkleCall("merkle_root_sorted", pairs, merkle_root_sorted(pairs))

MerkleProofSorted(index) ==
  MerkleCall("merkle_proof_sorted", index, merkle_proof_sorted(pairs, index))

VerifyProof(input) == MerkleCall("verify_proof", input, verify_proof(input.root, input.proof))

InitMerkle ==
  /\ InitCore({1}, {FALSE}, TRUE)
  /\ InitTransport({{}}, {1}, {1}, {FALSE})
  /\ InitStoreWith(SortedLists)
  /\ InitKeystore(1)
NextMerkle ==
  \/ MerkleRootSorted
  \/ \E index \in 0..MaxPairs : MerkleProofSorted(index)
  \/ \E index \in 0..(Len(pairs) - 1) :
       \E input \in {Genuine(pairs, index)}
                      \cup Forged(pairs, index, {ZeroHash, Genuine(pairs, index).proof.leaf}) :
         VerifyProof(input)
SpecMerkle == InitMerkle /\ [][NextMerkle]_vars

(* SpecStore: two stores over three keys, one a proper prefix of another.  *)
(* Store 1 is written by single puts, store 2 by batches that put in the    *)
(* other order, overwrite inside a batch, delete, and delete before putting *)
(* again, so that equal contents are reached along different histories      *)
StoreKeys == {<<1>>, <<1, 0>>, <<2>>}
StoreValues == {<<1>>, <<2>>}

Put(key, value) == [op |-> "Put", key |-> key, value |-> value]
Del(key) == [op |-> "Del", key |-> key, value |-> <<>>]

PlainBatches == {<<Put(k, v)>> : k \in StoreKeys, v \in StoreValues}
MixedBatches ==
  {<<Put(<<2>>, v), Put(<<1>>, v)>> : v \in StoreValues}
    \cup {<<Put(k, <<1>>), Put(k, <<2>>)>> : k \in StoreKeys}
    \cup {<<Del(k), Put(k, <<1>>)>> : k \in StoreKeys}
    \cup {<<Put(<<1, 0>>, <<2>>), Del(<<1>>)>>}
    \cup {<<Del(k)>> : k \in StoreKeys}

(* The orders in which db.iter() may yield the keys of db *)
Orders(db) ==
  {o \in [1..Cardinality(DOMAIN db) -> DOMAIN db] :
     \A i, j \in DOMAIN o : i # j => o[i] # o[j]}

(* A call on store s: the record of the call, and the tree if it changed *)
StoreCall(s, op, input, db, result) ==
  /\ stores' = [stores EXCEPT ![s] = db]
  /\ last_call' = [op |-> op, input |-> input, now |-> clock, result |-> result]
  /\ UNCHANGED <<finalizer_vars, log_calls, peers, clock, transport_vars, pairs,
                 keystore_vars>>

CommitAtomic(s, ops, outcome) ==
  LET r == commit_atomic(stores[s], ops, outcome)
  IN StoreCall(s, "commit_atomic", [store |-> s, ops |-> ops], r.db, r.result)

StateRoot(s, order, io) ==
  StoreCall(s, "state_root", [store |-> s], stores[s], state_root(stores[s], order, io))

ProveKey(s, key, order, io) ==
  StoreCall(s, "prove_key", [store |-> s, key |-> key], stores[s],
            prove_key(stores[s], key, order, io))

InitStoreSpec ==
  /\ InitCore({1}, {FALSE}, TRUE)
  /\ InitTransport({{}}, {1}, {1}, {FALSE})
  /\ InitStore
  /\ InitKeystore(1)
NextStore ==
  \/ \E ops \in PlainBatches, outcome \in {"Ok", "DbIo"} : CommitAtomic(1, ops, outcome)
  \/ \E ops \in MixedBatches, outcome \in {"Ok", "DbIo"} : CommitAtomic(2, ops, outcome)
  \/ \E s \in StoreIds, io \in BOOLEAN : \E order \in Orders(stores[s]) : StateRoot(s, order, io)
  \/ \E s \in StoreIds, key \in StoreKeys, io \in BOOLEAN :
       \E order \in Orders(stores[s]) : ProveKey(s, key, order, io)
SpecStore == InitStoreSpec /\ [][NextStore]_vars

(* SpecKeystore: MaxTasks tasks call Keystore::sign, up to MaxCalls calls in *)
(* all.  A call is the steps of the function: it waits for the mutex, asks   *)
(* the limiter, appends the audit record and signs; the guard is dropped     *)
(* when the function returns.  No step of the function panics, so the lock   *)
(* is never poisoned.                                                        *)
Idle == [pc |-> "idle", call |-> 0]

KeystoreStep ==
  UNCHANGED <<finalizer_vars, log_calls, last_call, peers, transport_vars, store_vars>>

(* Task t calls sign *)
SignCall(t) ==
  /\ tasks[t].pc = "idle"
  /\ Len(calls) + Cardinality({u \in Tasks : tasks[u].pc \in {"lock", "allow"}}) < MaxCalls
  /\ tasks' = [tasks EXCEPT ![t].pc = "lock"]
  /\ UNCHANGED <<limiter, mutex, audit, signed, calls, clock>>
  /\ KeystoreStep

(* self.limiter.lock() returns the guard *)
SignLock(t) ==
  /\ tasks[t].pc = "lock"
  /\ mutex = None
  /\ mutex' = Some(t)
  /\ tasks' = [tasks EXCEPT ![t].pc = "allow"]
  /\ UNCHANGED <<limiter, audit, signed, calls, clock>>
  /\ KeystoreStep

(* guard.allow() at Instant `now`; a refused call returns RateLimited *)
SignAllow(t, now) ==
  LET r == RateLimiter_allow(limiter, now)
  IN /\ tasks[t].pc = "allow"
     /\ limiter' = r.limiter
     /\ clock' = now
     /\ calls' = Append(calls, [task |-> t, at |-> now,
                                window |-> r.limiter.window_start, allowed |-> r.result])
     /\ IF r.result
        THEN /\ tasks' = [tasks EXCEPT ![t] = [pc |-> "audit", call |-> Len(calls) + 1]]
             /\ UNCHANGED mutex
        ELSE /\ tasks' = [tasks EXCEPT ![t] = Idle]
             /\ mutex' = None
     /\ UNCHANGED <<audit, signed>>
     /\ KeystoreStep

(* let _ = append_audit(..): the record is appended unless the file fails *)
SignAudit(t, io) ==
  /\ tasks[t].pc = "audit"
  /\ audit' = IF io THEN Append(audit, [action |-> "sign", call |-> tasks[t].call]) ELSE audit
  /\ tasks' = [tasks EXCEPT ![t].pc = "sign"]
  /\ UNCHANGED <<limiter, mutex, signed, calls, clock>>
  /\ KeystoreStep

(* self.backend.sign(msg) and the return, which drops the guard *)
SignBackend(t, ok) ==
  /\ tasks[t].pc = "sign"
  /\ signed' = IF ok THEN Append(signed, tasks[t].call) ELSE signed
  /\ tasks' = [tasks EXCEPT ![t] = Idle]
  /\ mutex' = None
  /\ UNCHANGED <<limiter, audit, calls, clock>>
  /\ KeystoreStep

SignSteps == {0, MsPerSec \div 2, MsPerSec}
InitKeystoreSpec ==
  /\ InitCore({1}, {FALSE}, FALSE)
  /\ InitTransport({{}}, {1}, {1}, {FALSE})
  /\ InitStore
  /\ \E limit \in 1..MaxLimit : InitKeystore(limit)
NextKeystore ==
  \/ \E t \in Tasks : SignCall(t)
  \/ \E t \in Tasks : SignLock(t)
  \/ \E t \in Tasks, now \in TimesAfter(SignSteps) : SignAllow(t, now)
  \/ \E t \in Tasks, io \in BOOLEAN : SignAudit(t, io)
  \/ \E t \in Tasks, ok \in BOOLEAN : SignBackend(t, ok)
SpecKeystore == InitKeystoreSpec /\ [][NextKeystore]_vars

(* SpecCache: ReplayCache::seen_or_insert is called with MaxIds message ids *)
(* on caches of each capacity up to ReplayCap + 1 (REPLAY_CACHE_MAX scaled   *)
(* down)                                                                     *)
MaxIds == 4
CacheIds == {sha256(k) : k \in 1..MaxIds}

SeenOrInsert(id) ==
  LET r == seen_or_insert(replay_cache, id)
  IN /\ replay_cache' = r.cache
     /\ last_call' = [op |-> "seen_or_insert", input |-> [id |-> id, q |-> replay_cache.q],
                      now |-> clock, result |-> r.result]
     /\ UNCHANGED <<finalizer_vars, log_calls, peers, clock, store_vars, keystore_vars>>
     /\ UNCHANGED <<allowlist, max_peers_per_ip, max_msg_per_sec, production, peers_by_ip,
                    peer_rates, peer_backoff, metrics, inbound, conns, conn_seq, doomed,
                    admitted, bumped>>

InitCache ==
  /\ InitCore({1}, {FALSE}, TRUE)
  /\ \E cap \in 1..(ReplayCap + 1) :
       StartAt([FreshNet({}, 1, 1, FALSE) EXCEPT !.replay = ReplayCache_new(cap)])
  /\ InitStore
  /\ InitKeystore(1)
NextCache == \E id \in CacheIds : SeenOrInsert(id)
SpecCache == InitCache /\ [][NextCache]_vars

(* SpecBackoff: one peer connects, sends a vote, junk and oversized junk,  *)
(* loses its connection and comes back, with the calls logged; the run     *)
(* ends after MaxCount + 1 invalid messages                                 *)
BackoffPayloads ==
  {Encoded(WireVote(1, 1, NowMs), SmallLen), Junk(1, SmallLen),
   Junk(2, MAX_WIRE_MSG_BYTES + 1)}
BackoffSteps == {0, MsPerSec \div 2}
InitBackoff ==
  /\ InitCore({1}, {FALSE}, TRUE)
  /\ InitTransport({{}}, {1}, {1, MaxRate}, {FALSE})
  /\ InitStore
  /\ InitKeystore(1)
NextBackoff ==
  \/ \E now \in TimesAfter(BackoffSteps) : ConnectionEstablished(1, Some(1), now)
  \/ \E c \in conns : ConnectionClosed(c)
  \/ \E data \in BackoffPayloads, now \in TimesAfter(BackoffSteps) :
       /\ metrics["p2p_invalid_msg_total"] <= MaxCount
       /\ GossipMessage(1, data, now, MaxJitter)
  \/ InboundRecv
SpecBackoff == InitBackoff /\ [][NextBackoff]_vars

(* SpecFresh: check_freshness is called with timestamps at both ends of the *)
(* u64 range, TTLs up to the u32 range and several configurations           *)
FreshTimes == {0, 1, 2, NowMs, U64Max - max_clock_skew_ms, U64Max - 1, U64Max}
FreshTtls == {0, 1, max_ttl_ms, max_ttl_ms + 1, U32Max}
FreshSkews == {0, 1, max_clock_skew_ms, U64Max}
FreshTtlCaps == {max_ttl_ms, U32Max}

CheckFreshness(skew_ms, ttl_cap_ms, sent_ts_ms, ttl_ms, now) ==
  /\ last_call' = [op |-> "check_freshness",
                   input |-> [max_clock_skew_ms |-> skew_ms, max_ttl_ms |-> ttl_cap_ms,
                              sent_ts_ms |-> sent_ts_ms, ttl_ms |-> ttl_ms],
                   now |-> now,
                   result |-> check_freshness_cfg(skew_ms, ttl_cap_ms, sent_ts_ms, ttl_ms, now)]
  /\ UNCHANGED <<finalizer_vars, log_calls, peers, clock, transport_vars, store_vars,
                 keystore_vars>>

InitFresh == InitLogging({1}, {FALSE}, TRUE)
NextFresh ==
  \E skew_ms \in FreshSkews, ttl_cap_ms \in FreshTtlCaps, sent_ts_ms \in FreshTimes,
     ttl_ms \in FreshTtls, now \in FreshTimes :
    CheckFreshness(skew_ms, ttl_cap_ms, sent_ts_ms, ttl_ms, now)
SpecFresh == InitFresh /\ [][NextFresh]_vars

----------------------------------------------------------------------------
(* Properties of commit assembly, checked under SpecTide *)

N == Cardinality(validators)

(* The validators with a recorded vote at slot s for exactly (hash, meta) *)
Supporters(vts, s, hash, meta) ==
  LET rm == RoundVotes(vts, s[1], s[2])
  IN {vid \in DOMAIN rm \cap validators : rm[vid].block_hash = hash /\ rm[vid].meta = meta}

TheCommit(r) == CHOOSE c \in r.commit : TRUE

(* C1: at most one call returns a commit for a given (height, round): once a *)
(* commit was returned for it, no later vote returns another                 *)
C1_AtMostOneCommit ==
  \A s \in Slots : Len(emitted[s]) <= 1

(* C2: all commits returned for one (height, round) carry the same block_hash *)
(* and meta, those of the only group that holds floor(2N/3)+1 recorded votes  *)
C2_CommitsAgree ==
  \A s \in Slots : \A i \in 1..Len(emitted[s]) :
    LET c == emitted[s][i]
        first == emitted[s][1]
    IN /\ c.block_hash = first.block_hash
       /\ MetaOf(c) = MetaOf(first)
       /\ \A vid \in DOMAIN RoundVotes(votes, s[1], s[2]) :
            LET rec == RoundVotes(votes, s[1], s[2])[vid]
            IN Cardinality(Supporters(votes, s, rec.block_hash, rec.meta)) >= (2 * N) \div 3 + 1
               => rec.block_hash = first.block_hash /\ rec.meta = MetaOf(first)

(* C2 witness: two commits were returned for a round in which another hash has votes *)
C2_Witness ==
  \E s \in Slots :
    /\ Len(emitted[s]) >= 2
    /\ \E vid \in DOMAIN RoundVotes(votes, s[1], s[2]) :
         RoundVotes(votes, s[1], s[2])[vid].block_hash # emitted[s][1].block_hash

(* C3: a commit is returned for (h, r) only if at least floor(2N/3)+1 distinct *)
(* validators have a recorded vote at (h, r) with its block_hash and its meta  *)
C3_CommitNeedsThreshold ==
  \A s \in Slots : \A i \in 1..Len(emitted[s]) :
    LET c == emitted[s][i]
    IN /\ c.height = s[1] /\ c.round = s[2]
       /\ Cardinality(Supporters(votes, s, c.block_hash, MetaOf(c))) >= (2 * N) \div 3 + 1

(* C3 witness: a threshold of votes on one hash, split over two metas, and no commit *)
C3_Witness ==
  \E s \in Slots : \E hash \in Hashes :
    LET rm == RoundVotes(votes, s[1], s[2])
        onHash == {vid \in DOMAIN rm : rm[vid].block_hash = hash}
    IN /\ N = MaxValidators
       /\ Cardinality(onHash) >= (2 * N) \div 3 + 1
       /\ \E a, b \in onHash : rm[a].meta # rm[b].meta
       /\ emitted[s] = <<>>

(* C4: a returned commit carries the round's height and round and the group's *)
(* block_hash and meta; its signature map has as keys exactly the validators   *)
(* whose recorded vote has that (block_hash, meta), each with its recorded     *)
(* signature; the first commit of a round has exactly floor(2N/3)+1 keys       *)
C4_CommitContent ==
  \A v \in VotesTide :
    LET r == Outcome(v, NowMs)
        s == <<v.height, v.round>>
    IN r.commit # None =>
         LET c == TheCommit(r)
             rm == RoundVotes(r.votes, v.height, v.round)
             keys == Supporters(r.votes, s, c.block_hash, MetaOf(c))
         IN /\ c.height = v.height /\ c.round = v.round
            /\ DOMAIN c.signatures = keys
            /\ \A vid \in keys : c.signatures[vid] = rm[vid].signature
            /\ \A vid \in keys :
                 verify_pubkey_bytes(vid,
                   vote_signing_bytes_auto(c.height, c.round, c.epoch, c.msg_counter,
                                           c.sent_ts_ms, c.ttl_ms, c.block_hash, vid),
                   c.signatures[vid])
            /\ emitted[s] = <<>> =>
                 /\ Cardinality(keys) = (2 * N) \div 3 + 1
                 /\ c.block_hash = v.block_hash /\ MetaOf(c) = MetaOf(v)
                 /\ v.voter \in keys

(* C4 witness: with MaxValidators validators the first commit of a round was *)
(* returned while another validator had voted differently                     *)
C4_Witness ==
  \E s \in Slots :
    /\ N = MaxValidators
    /\ Len(emitted[s]) = 1
    /\ Cardinality(DOMAIN emitted[s][1].signatures) = (2 * N) \div 3 + 1
    /\ DOMAIN RoundVotes(votes, s[1], s[2]) # DOMAIN emitted[s][1].signatures

(* C6: a vote rejected as DoubleVote leaves votes unchanged, and no call ever *)
(* changes or removes a record that exists                                     *)
C6_DoubleVoteKeepsVotes ==
  \A v \in VotesTide :
    LET r == Outcome(v, NowMs)
    IN /\ r.result = "DoubleVote" => r.votes = votes
       /\ \A h \in DOMAIN votes : \A rd \in DOMAIN votes[h] : \A vid \in DOMAIN votes[h][rd] :
            /\ h \in DOMAIN r.votes /\ rd \in DOMAIN r.votes[h] /\ vid \in DOMAIN r.votes[h][rd]
            /\ r.votes[h][rd][vid] = votes[h][rd][vid]

(* C6 witness: a DoubleVote was returned for a round before any commit, and a *)
(* commit was returned for that round afterwards                               *)
C6_Witness ==
  \E s \in Slots : <<s[1], s[2], 0>> \in slashed /\ Len(emitted[s]) >= 1

----------------------------------------------------------------------------
(* Properties of the membership check, checked under SpecMember *)

(* Votes of every id, validator or not, fresh or not, well signed or forged *)
MetasAny ==
  MetasTide \cup {VoteMeta(0, 0, 0, max_ttl_ms + 1),
                  VoteMeta(1, 1, NowMs + max_clock_skew_ms + 1, max_ttl_ms)}
VotesAny == VoteSet(1..Attacker, {0}, MetasAny)

(* C11: a vote whose voter is not in the validator set returns UnknownValidator, *)
(* whatever its other fields, its signature and the clock, and changes neither   *)
(* votes nor replay; every key of votes[h][r] and of replay is a validator and   *)
(* votes[h][r] has at most N entries                                             *)
C11_UnknownValidator ==
  /\ \A v \in VotesAny : \A now \in NowValues :
       ~(v.voter \in validators)
       => LET r == Outcome(v, now)
          IN /\ r.result = "UnknownValidator"
             /\ r.votes = votes /\ r.replay = replay
             /\ r.commit = None /\ r.slashed = <<>>
  /\ \A h \in DOMAIN votes : \A rd \in DOMAIN votes[h] :
       /\ DOMAIN votes[h][rd] \subseteq validators
       /\ Cardinality(DOMAIN votes[h][rd]) <= N
  /\ DOMAIN replay \subseteq validators
  /\ (last_call.op = "vote" /\ ~(last_call.input.voter \in validators))
     => last_call.result = "UnknownValidator"

(* C11 witness: the correctly signed vote of a non-validator was rejected in a *)
(* round in which all N validators have a record and a commit was returned     *)
C11_Witness ==
  \E s \in Slots :
    /\ last_call.op = "vote"
    /\ ~(last_call.input.voter \in validators)
    /\ CorrectlySigned(last_call.input)
    /\ last_call.result = "UnknownValidator"
    /\ DOMAIN RoundVotes(votes, s[1], s[2]) = validators
    /\ emitted[s] # <<>>

----------------------------------------------------------------------------
(* Properties of the replay and double-vote checks, checked under SpecReplay *)

(* The voter of v has a record at v's (height, round) *)
HasRecord(v) == v.voter \in DOMAIN RoundVotes(votes, v.height, v.round)

RecordOf(v) == RoundVotes(votes, v.height, v.round)[v.voter]

(* v equals, field by field, the vote its voter has on record *)
IsRecorded(v) ==
  /\ HasRecord(v)
  /\ RecordOf(v) = [block_hash |-> v.block_hash, signature |-> v.signature, meta |-> MetaOf(v)]

(* C5: a correctly signed vote of V at the (h, r) of V's recorded vote, with *)
(* the same meta (epoch 1, msg_counter 1) and another block_hash, returns     *)
(* DoubleVote and invokes on_double_vote once, with V                          *)
C5_DoubleVoteReturned ==
  \A v \in VotesReplay :
    (/\ HasRecord(v)
     /\ v.epoch = 1 /\ v.msg_counter = 1
     /\ RecordOf(v).meta = MetaOf(v)
     /\ RecordOf(v).block_hash # v.block_hash
     /\ CorrectlySigned(v))
    => LET r == Outcome(v, NowMs)
       IN r.result = "DoubleVote" /\ r.slashed = <<v.voter>>

(* C7 as stated: a vote equal in every field to the recorded one returns *)
(* success with no commit, for legacy and replay-sealed votes alike        *)
C7_DuplicateAlwaysOk ==
  \A v \in VotesReplay :
    IsRecorded(v)
    => LET r == Outcome(v, NowMs)
       IN r.result = "Ok" /\ r.commit = None /\ r.slashed = <<>>

(* C7 amended: a vote equal in every field to the recorded one returns no     *)
(* commit, never DoubleVote, invokes no hook and records nothing; it returns   *)
(* success when it is legacy, and Replay when its msg_counter is non-zero and  *)
(* replay[voter] holds its epoch with a last_counter >= its msg_counter        *)
C7_Duplicate ==
  \A v \in VotesReplay : \A now \in NowValues :
    IsRecorded(v)
    => LET r == Outcome(v, now)
       IN /\ r.result \in {"Ok", "Replay"}
          /\ r.commit = None
          /\ r.slashed = <<>>
          /\ r.votes = votes
          /\ MetaOf(v) = LegacyMeta => r.result = "Ok"
          /\ (/\ v.msg_counter # 0
              /\ v.voter \in DOMAIN replay
              /\ replay[v.voter].epoch = v.epoch
              /\ replay[v.voter].last_counter >= v.msg_counter)
             => r.result = "Replay"

(* C7 witness: the voter has a legacy vote on record in one round and, in *)
(* another, a replay-sealed vote whose counter replay[voter] still holds   *)
C7_Witness ==
  \E v, w \in VotesReplay :
    /\ v.voter = w.voter
    /\ IsRecorded(v) /\ MetaOf(v) = LegacyMeta
    /\ IsRecorded(w) /\ w.msg_counter # 0
    /\ w.voter \in DOMAIN replay
    /\ replay[w.voter].epoch = w.epoch
    /\ replay[w.voter].last_counter = w.msg_counter
    /\ emitted[<<w.height, w.round>>] # <<>>

(* replay[voter] is the triple of a vote that was accepted *)
ReplayFromAccepted(voter) ==
  voter \in DOMAIN replay =>
    /\ replay[voter].epoch \in DOMAIN accepted[voter]
    /\ replay[voter].last_counter <= accepted[voter][replay[voter].epoch].msg_counter
    /\ replay[voter].last_sent_ts_ms <= accepted[voter][replay[voter].epoch].sent_ts_ms

(* C8: the non-legacy votes of a voter accepted in one epoch have strictly  *)
(* increasing msg_counter and non-decreasing sent_ts_ms in acceptance order: *)
(* an accepted vote with a non-zero msg_counter exceeds every msg_counter    *)
(* accepted before in its epoch (stated for the states in which              *)
(* replay[voter] stems from an accepted vote)                                *)
C8_ReplayMonotonic ==
  \A v \in VotesReplay : \A now \in NowValues :
    LET r == Outcome(v, now)
    IN (/\ r.result = "Ok"
        /\ v.msg_counter # 0
        /\ v.epoch \in DOMAIN accepted[v.voter]
        /\ ReplayFromAccepted(v.voter))
       => /\ v.msg_counter > accepted[v.voter][v.epoch].msg_counter
          /\ v.sent_ts_ms >= accepted[v.voter][v.epoch].sent_ts_ms

(* A vote that reaches the replay-counter check *)
ReachesReplayCheck(v, now) ==
  v.voter \in validators /\ check_freshness(v.sent_ts_ms, v.ttl_ms, now)

(* replay[voter] holds a non-zero counter: the last vote of the voter that *)
(* passed the replay check was replay-sealed with that epoch and counter    *)
HoldsCounter(voter) == voter \in DOMAIN replay /\ replay[voter].last_counter # 0

C10_ErrorLeavesReplay ==
  /\ \A voter \in validators : ReplayFromAccepted(voter)
  /\ \A v \in VotesReplay :
       (/\ v.voter \in validators
        /\ CorrectlySigned(v)
        /\ ~IsLegacy(v)
        /\ ~(require_epoch /\ v.epoch = 0)
        /\ v.epoch \in DOMAIN accepted[v.voter] =>
             /\ v.msg_counter > accepted[v.voter][v.epoch].msg_counter
             /\ v.sent_ts_ms >= accepted[v.voter][v.epoch].sent_ts_ms)
       => Outcome(v, NowMs).result # "Replay"

----------------------------------------------------------------------------
(* Properties of the admission checks, checked under SpecVerify *)

LastVote == last_call.op = "vote"
LastCommit == last_call.op = "commit"

(* The acceptance condition of check_freshness as the specification words it *)
Accepts(sent_ts_ms, ttl_ms, now) ==
  \/ sent_ts_ms = 0 /\ ttl_ms = 0
  \/ /\ ttl_ms <= max_ttl_ms
     /\ now # 0
     /\ \/ sent_ts_ms = 0
        \/ (now - sent_ts_ms <= max_clock_skew_ms /\ sent_ts_ms - now <= max_clock_skew_ms)
     /\ \/ sent_ts_ms = 0
        \/ ttl_ms = 0
        \/ now <= sent_ts_ms + ttl_ms + max_clock_skew_ms

SentGrid == SentValues \cup {1, NowMs}
TtlGrid == TtlValues \cup {1}
NowGrid == NowValues \cup {1, NowMs + max_ttl_ms + 2 * max_clock_skew_ms + 1}

(* C12: check_freshness accepts iff sent_ts_ms = 0 and ttl_ms = 0, or ttl_ms <= *)
(* max_ttl_ms, the clock is non-zero, sent_ts_ms = 0 or the skew is at most     *)
(* max_clock_skew_ms (accepted at exactly the limit, rejected one millisecond   *)
(* beyond it, in both directions), and sent_ts_ms = 0 or ttl_ms = 0 or now <=   *)
(* sent_ts_ms + ttl_ms + max_clock_skew_ms; a vote of a validator or a commit   *)
(* that is not accepted returns Replay                                          *)
C12_Freshness ==
  /\ \A sent \in SentGrid : \A ttl \in TtlGrid : \A now \in NowGrid :
       check_freshness(sent, ttl, now) <=> Accepts(sent, ttl, now)
  /\ \A ttl \in {0, max_ttl_ms} :
       /\ check_freshness(NowMs - max_clock_skew_ms, ttl, NowMs)
       /\ check_freshness(NowMs + max_clock_skew_ms, ttl, NowMs)
       /\ ~check_freshness(NowMs - max_clock_skew_ms - 1, ttl, NowMs)
       /\ ~check_freshness(NowMs + max_clock_skew_ms + 1, ttl, NowMs)
  /\ (LastCommit \/ (LastVote /\ last_call.input.voter \in validators))
     => LET m == last_call.input
            fresh == Accepts(m.sent_ts_ms, m.ttl_ms, last_call.now)
        IN /\ ~fresh => last_call.result = "Replay"
           /\ last_call.result = "Ok" => fresh

(* C12 witness: a commit sent exactly max_clock_skew_ms before the local clock *)
(* was accepted                                                                 *)
C12_Witness ==
  /\ LastCommit
  /\ last_call.now = NowMs
  /\ last_call.input.sent_ts_ms = NowMs - max_clock_skew_ms
  /\ last_call.input.ttl_ms = max_ttl_ms
  /\ last_call.result = "Ok"

(* Votes with epoch 0 and every combination of zero and non-zero msg_counter, *)
(* sent_ts_ms and ttl_ms, of a validator and of a non-validator                *)
MetasEpoch0 ==
  {VoteMeta(0, c, ts, ttl) : <<c, ts, ttl>> \in {0, 1} \X {0, SealedTs} \X {0, max_ttl_ms}}
VotesEpoch0 ==
  UNION {{MkVote(h, 0, m, 1, vo, vo), MkVoteCross(h, 0, m, 1, vo)} :
           <<h, m, vo>> \in Heights \X MetasEpoch0 \X {1, Attacker}}

(* No vote of epoch 0 is on record in votes or in replay *)
NoEpoch0Recorded ==
  /\ \A h \in DOMAIN votes : \A rd \in DOMAIN votes[h] : \A vid \in DOMAIN votes[h][rd] :
       votes[h][rd][vid].meta.epoch # 0
  /\ \A vid \in DOMAIN replay : replay[vid].epoch # 0

(* C13 as stated: under require_epoch every vote and every commit with epoch 0 *)
(* returns Replay, whoever its voter is, and is recorded neither in votes nor   *)
(* in replay; without require_epoch a vote with epoch 0, msg_counter 0 and      *)
(* sent_ts_ms 0 leaves replay unchanged                                         *)
C13_RequireEpoch ==
  /\ (require_epoch /\ (LastVote \/ LastCommit) /\ last_call.input.epoch = 0)
     => last_call.result = "Replay"
  /\ require_epoch => NoEpoch0Recorded
  /\ \A v \in VotesEpoch0 : \A now \in NowValues :
       (~require_epoch /\ IsLegacy(v)) => Outcome(v, now).replay = replay

(* C13 amended: under require_epoch every vote of a validator and every commit *)
(* with epoch 0 returns Replay, whatever its msg_counter, sent_ts_ms, ttl_ms    *)
(* and signature, and a vote of a non-validator returns UnknownValidator; the   *)
(* rejected vote changes neither votes nor replay.  Without require_epoch a     *)
(* vote with epoch 0, msg_counter 0 and sent_ts_ms 0 leaves replay unchanged    *)
(* and, when its voter is a validator and it is fresh, does not return Replay   *)
C13_RequireEpochAmended ==
  /\ (require_epoch /\ LastCommit /\ last_call.input.epoch = 0)
     => last_call.result = "Replay"
  /\ (require_epoch /\ LastVote /\ last_call.input.epoch = 0)
     => last_call.result = IF last_call.input.voter \in validators
                           THEN "Replay" ELSE "UnknownValidator"
  /\ require_epoch => NoEpoch0Recorded
  /\ \A v \in VotesEpoch0 : \A now \in NowValues :
       LET r == Outcome(v, now)
       IN /\ require_epoch
             => /\ r.result = IF v.voter \in validators THEN "Replay" ELSE "UnknownValidator"
                /\ r.votes = votes /\ r.replay = replay
          /\ (~require_epoch /\ IsLegacy(v))
             => /\ r.replay = replay
                /\ (v.voter \in validators /\ check_freshness(v.sent_ts_ms, v.ttl_ms, now))
                   => r.result # "Replay"

(* C13 witness: under require_epoch a validator that has a vote of epoch 1 on *)
(* record sent a vote with epoch 0 and a non-zero msg_counter, which returned  *)
(* Replay                                                                      *)
C13_Witness ==
  /\ require_epoch
  /\ LastVote
  /\ last_call.input.epoch = 0 /\ last_call.input.msg_counter # 0
  /\ last_call.input.voter \in validators
  /\ CorrectlySigned(last_call.input)
  /\ last_call.now = NowMs
  /\ last_call.result = "Replay"
  /\ last_call.input.voter \in DOMAIN replay

(* The signatures of commit c that do not verify under their signer's key over *)
(* the transcript of c's fields and the signer's id                             *)
BadSigners(c) ==
  {vid \in DOMAIN c.signatures :
     c.signatures[vid] #
       Sign(vid, vote_signing_bytes_auto(c.height, c.round, c.epoch, c.msg_counter,
                                         c.sent_ts_ms, c.ttl_ms, c.block_hash, vid))}

(* C14: process_commit_verified accepts a commit iff it passes the freshness  *)
(* and require_epoch rules, every signer is a validator, there are at least    *)
(* floor(2N/3)+1 signers and every signature verifies over the transcript of   *)
(* the commit's fields and the signer's id; otherwise it returns the first of  *)
(* Replay, UnknownValidator, NotEnoughVotes, BadSignature that applies         *)
C14_CommitAccepted ==
  LastCommit =>
    LET c == last_call.input
        signers == DOMAIN c.signatures
        stale == ~Accepts(c.sent_ts_ms, c.ttl_ms, last_call.now)
                   \/ (require_epoch /\ c.epoch = 0)
        strangers == ~(signers \subseteq validators)
        few == Cardinality(signers) < (2 * N) \div 3 + 1
        forged == BadSigners(c) # {}
    IN /\ last_call.result = "Ok" <=> ~stale /\ ~strangers /\ ~few /\ ~forged
       /\ last_call.result =
            (IF stale THEN "Replay"
             ELSE IF strangers THEN "UnknownValidator"
             ELSE IF few THEN "NotEnoughVotes"
             ELSE IF forged THEN "BadSignature"
             ELSE "Ok")

(* C14 witness: a replay-sealed commit signed by exactly floor(2N/3)+1 of the *)
(* N validators, fewer than all of them, was accepted                          *)
C14_Witness ==
  /\ LastCommit
  /\ last_call.result = "Ok"
  /\ last_call.input.epoch # 0
  /\ Cardinality(DOMAIN last_call.input.signatures) = (2 * N) \div 3 + 1
  /\ DOMAIN last_call.input.signatures # validators

(* The message a signature was made over, and the version of a transcript *)
SignedMessage(sig) == sig[2]
IsV1(msg) == msg[1] = "Amunchain-Tide-Vote-v1"
IsV2(msg) == msg[1] = "Amunchain-Tide-Vote-v2"

MetaGrid ==
  {VoteMeta(e, c, ts, ttl) :
     <<e, c, ts, ttl>> \in {0, 1} \X {0, 1} \X {0, SealedTs} \X {0, max_ttl_ms}}
V1Transcripts ==
  {vote_signing_bytes_v1(h, r, 1, vo) : <<h, r, vo>> \in Heights \X Rounds \X {1, Attacker}}
V2Transcripts ==
  {vote_signing_bytes_v2(h, r, m.epoch, m.msg_counter, m.sent_ts_ms, m.ttl_ms, 1, vo) :
     <<h, r, m, vo>> \in Heights \X Rounds \X MetaGrid \X {1, Attacker}}

(* C15: vote_signing_bytes_auto yields the v1 transcript iff epoch, msg_counter, *)
(* sent_ts_ms and ttl_ms are all zero and the v2 transcript otherwise; no v1     *)
(* transcript equals a v2 transcript; an accepted vote or commit carries only    *)
(* signatures made over the version its meta selects, so a signature over a      *)
(* legacy transcript is never accepted for a non-zero meta and vice versa        *)
C15_TranscriptVersions ==
  /\ \A h \in Heights : \A r \in Rounds : \A m \in MetaGrid : \A vo \in {1, Attacker} :
       LET t == vote_signing_bytes_auto(h, r, m.epoch, m.msg_counter, m.sent_ts_ms,
                                        m.ttl_ms, 1, vo)
       IN IF m.epoch = 0 /\ m.msg_counter = 0 /\ m.sent_ts_ms = 0 /\ m.ttl_ms = 0
          THEN t = vote_signing_bytes_v1(h, r, 1, vo) /\ IsV1(t)
          ELSE t = vote_signing_bytes_v2(h, r, m.epoch, m.msg_counter, m.sent_ts_ms,
                                         m.ttl_ms, 1, vo) /\ IsV2(t)
  /\ V1Transcripts \cap V2Transcripts = {}
  /\ (LastVote /\ last_call.result = "Ok")
     => LET v == last_call.input
        IN IsV1(SignedMessage(v.signature)) <=> MetaOf(v) = LegacyMeta
  /\ (LastCommit /\ last_call.result = "Ok")
     => LET c == last_call.input
        IN \A vid \in DOMAIN c.signatures :
             IsV1(SignedMessage(c.signatures[vid])) <=> MetaOf(c) = LegacyMeta

(* C15 witness: a validator's vote with a non-zero meta, signed by the validator *)
(* over the legacy transcript of the same height, round, hash and voter, reached  *)
(* the signature check and returned BadSignature                                  *)
C15_Witness ==
  /\ LastVote
  /\ last_call.input.voter \in validators
  /\ last_call.input.epoch # 0
  /\ last_call.input.signature =
       Sign(last_call.input.voter,
            vote_signing_bytes_v1(last_call.input.height, last_call.input.round,
                                  last_call.input.block_hash, last_call.input.voter))
  /\ last_call.result = "BadSignature"

----------------------------------------------------------------------------
(* Properties of peer scoring, checked under SpecPeer *)

Known(p) == p \in DOMAIN peers

(* The state of p before a call at `now`: fresh if p is unknown *)
StateOf(p, now) ==
  IF Known(p) THEN peers[p]
  ELSE [score |-> 0, last_decay |-> now, banned_until |-> None, ban_level |-> 0]

(* p is banned at `now`: banned_until is set and lies after now *)
BannedAt(p, now) == \E t \in StateOf(p, now).banned_until : now < t

(* The score of p at `now` once the decay due by then is applied *)
DecayedScore(p, now) == decay_inner(StateOf(p, now), now).score

(* The observe_good and observe_bad calls on p at `now` that return, with the *)
(* amount each adds to the score                                              *)
Observations(p, now) ==
  {[op |-> "observe_good", delta |-> d, eff |-> IF d > 0 THEN d ELSE 0,
    r |-> observe_good(peers, p, now, d)] : d \in Deltas}
  \cup
  {o \in {[op |-> "observe_bad", delta |-> x[1], eff |-> IF x[1] > 0 THEN 0 - x[1] ELSE x[1],
           r |-> observe_bad(peers, p, now, x[1], x[2])] : x \in Deltas \X BOOLEAN} :
     o.r.result # "Panic"}

(* C16: every peer's score lies in min_score..max_score after every call;  *)
(* observe_good leaves the score at or above the decayed score, observe_bad *)
(* at or below it; score() returns a value in the range                     *)
C16_ScoreBounds ==
  /\ \A p \in DOMAIN peers : peers[p].score \in min_score..max_score
  /\ \A p \in Peers : \A now \in Times :
       /\ score(peers, p, now).result \in min_score..max_score
       /\ \A o \in Observations(p, now) :
            /\ o.r.peers[p].score \in min_score..max_score
            /\ o.op = "observe_good" => o.r.peers[p].score >= DecayedScore(p, now)
            /\ o.op = "observe_bad" => o.r.peers[p].score <= DecayedScore(p, now)
       /\ \A d \in Deltas : observe_bad(peers, p, now, d, TRUE).result = "Panic"
            => observe_bad(peers, p, now, d, TRUE).peers = peers

(* C16 witness: observe_bad was called with i32::MIN and left the score at *)
(* min_score                                                                *)
C16_Witness ==
  /\ last_call.op = "observe_bad"
  /\ last_call.input.delta = I32Min
  /\ last_call.result = "Ban"
  /\ peers[last_call.input.peer].score = min_score

(* C17: observe_good / observe_bad return Ban iff the peer is banned at the  *)
(* call time or the updated score is <= ban_threshold; otherwise Allow iff    *)
(* the updated score is >= 0 and Throttle iff it is < 0                       *)
C17_Decision ==
  \A p \in Peers : \A now \in Times : \A o \in Observations(p, now) :
    LET updated == o.r.peers[p].score
        ban == BannedAt(p, now) \/ updated <= ban_threshold
    IN /\ o.r.result = "Ban" <=> ban
       /\ o.r.result = "Allow" <=> ~ban /\ updated >= 0
       /\ o.r.result = "Throttle" <=> ~ban /\ updated < 0

(* C17 witness: an observation returned Ban for a banned peer whose score had *)
(* decayed above ban_threshold                                                 *)
C17_Witness ==
  /\ last_call.op \in {"observe_good", "observe_bad"}
  /\ last_call.result = "Ban"
  /\ peers[last_call.input.peer].score > ban_threshold
  /\ peers[last_call.input.peer].score < 0

MaxLevel == 20

(* C18: an update that leaves a non-banned peer's score <= ban_threshold     *)
(* raises ban_level by exactly 1 and sets banned_until to now +              *)
(* min(ban_base_secs * 2^(ban_level-1), ban_max_secs); no other call changes *)
(* ban_level; the ban durations do not decrease with the level and never     *)
(* exceed ban_max_secs                                                       *)
C18_BanBackoff ==
  /\ \A p \in Peers : \A now \in Times :
       LET level == StateOf(p, now).ban_level
       IN /\ \A o \in Observations(p, now) :
               LET st == o.r.peers[p]
               IN IF ~BannedAt(p, now) /\ st.score <= ban_threshold
                  THEN /\ st.ban_level = level + 1
                       /\ st.banned_until =
                            Some(now + Min(ban_base_secs * 2^(st.ban_level - 1), ban_max_secs) * MsPerSec)
                  ELSE st.ban_level = level
          /\ Known(p) => /\ score(peers, p, now).peers[p].ban_level = level
                         /\ is_banned(peers, p, now).peers[p].ban_level = level
  /\ \A level \in 1..MaxLevel :
       /\ backoff_secs(ban_base_secs, ban_max_secs, level)
            = Min(ban_base_secs * 2^(level - 1), ban_max_secs)
       /\ backoff_secs(ban_base_secs, ban_max_secs, level) <= ban_max_secs
       /\ backoff_secs(ban_base_secs, ban_max_secs, level)
            <= backoff_secs(ban_base_secs, ban_max_secs, level + 1)

(* C18 witness: the third ban of a peer was just imposed, for 120 seconds *)
C18_Witness ==
  /\ last_call.op \in {"observe_good", "observe_bad"}
  /\ last_call.result = "Ban"
  /\ peers[last_call.input.peer].ban_level = 3
  /\ peers[last_call.input.peer].banned_until = Some(clock + 4 * ban_base_secs * MsPerSec)

(* The score s after m full minutes of decay *)
DecayedBy(s, m) ==
  IF s > 0 THEN Max(s - decay_per_min * m, 0)
  ELSE IF s < 0 THEN Min(s + decay_per_min * m, 0)
  ELSE 0

(* C19: score, is_banned and the observations of a known peer first apply the *)
(* decay due; the decay moves the score toward 0 by decay_per_min per full    *)
(* minute since last_decay without crossing 0 and advances last_decay by      *)
(* those full minutes; reading the score at t2 gives the same state and value  *)
(* whether or not it was also read at some t1 <= t2                            *)
C19_Decay ==
  \A p \in DOMAIN peers : \A t1 \in Times :
    LET st == peers[p]
        m == ((t1 - st.last_decay) \div MsPerSec) \div 60
        dec == decay_inner(st, t1)
    IN /\ dec = [st EXCEPT !.score = DecayedBy(st.score, m),
                            !.last_decay = st.last_decay + 60 * m * MsPerSec]
       /\ t1 - dec.last_decay \in 0..(60 * MsPerSec - 1)
       /\ score(peers, p, t1) = [peers |-> [peers EXCEPT ![p] = dec], result |-> dec.score]
       /\ is_banned(peers, p, t1).peers = [peers EXCEPT ![p] = dec]
       /\ \A o \in Observations(p, t1) :
            /\ o.r.peers[p].last_decay = dec.last_decay
            /\ BannedAt(p, t1) => o.r.peers[p] = dec
       /\ \A d \in TimeSteps :
            score(score(peers, p, t1).peers, p, t1 + d) = score(peers, p, t1 + d)

(* C19 witness: a read found a decayed, non-zero score with half a minute *)
(* carried over to the next decay                                          *)
C19_Witness ==
  /\ last_call.op = "score"
  /\ last_call.result # 0
  /\ last_call.result % decay_per_min = 0
  /\ last_call.result % 100 # 0
  /\ clock - peers[last_call.input.peer].last_decay = 30 * MsPerSec

(* s + d limited to min_score..max_score *)
Bounded(s, d) ==
  IF d >= max_score - s THEN max_score
  ELSE IF d <= min_score - s THEN min_score
  ELSE s + d

(* C20: is_banned is true iff banned_until is set and now < banned_until;     *)
(* while now < banned_until an observation returns Ban and changes nothing    *)
(* but the decay; an observation at now >= banned_until drops that ban and    *)
(* adds its delta to the decayed score                                        *)
C20_BanExpiry ==
  \A p \in Peers : \A now \in Times :
    LET st == StateOf(p, now)
        dec == decay_inner(st, now)
    IN /\ is_banned(peers, p, now).result
            <=> (Known(p) /\ st.banned_until # None /\ \A t \in st.banned_until : now < t)
       /\ \A o \in Observations(p, now) :
            IF \E t \in st.banned_until : now < t
            THEN o.r.result = "Ban" /\ o.r.peers[p] = dec
            ELSE /\ o.r.peers[p].score = Bounded(dec.score, o.eff)
                 /\ o.r.peers[p].banned_until # st.banned_until \/ st.banned_until = None
                 /\ o.r.peers[p].score > ban_threshold
                      => o.r.peers[p].banned_until = None /\ o.r.result # "Ban"

(* C20 witness: an observation made after a ban had run out was applied and *)
(* cleared banned_until                                                      *)
C20_Witness ==
  /\ last_call.op \in {"observe_good", "observe_bad"}
  /\ last_call.result \in {"Allow", "Throttle"}
  /\ peers[last_call.input.peer].ban_level >= 1
  /\ peers[last_call.input.peer].banned_until = None

(* C39: observe_good never bans: for a peer that is not banned at the call  *)
(* time, observe_good with any delta returns Allow or Throttle and leaves   *)
(* ban_level as it was and banned_until unset                               *)
C39_GoodNeverBans ==
  \A p \in Peers : \A now \in Times : \A d \in Deltas :
    ~BannedAt(p, now) =>
      LET r == observe_good(peers, p, now, d)
      IN /\ r.result \in {"Allow", "Throttle"}
         /\ r.peers[p].ban_level = StateOf(p, now).ban_level
         /\ r.peers[p].banned_until = None

(* A peer whose score stays above ban_threshold once the decay due and the *)
(* delta are applied is not banned by observe_good                          *)
GoodAboveThreshold ==
  \A p \in Peers : \A now \in Times : \A d \in Deltas :
    ~BannedAt(p, now) /\ Bounded(DecayedScore(p, now), Max(d, 0)) > ban_threshold =>
      LET r == observe_good(peers, p, now, d)
      IN /\ r.result \in {"Allow", "Throttle"}
         /\ r.peers[p].ban_level = StateOf(p, now).ban_level
         /\ r.peers[p].banned_until = None

----------------------------------------------------------------------------
(* Properties of the inbound path of the transport, checked under SpecGossip *)

(* The payloads the handler is probed with in every state: the payloads of *)
(* the specification, a vote and a commit of exactly the permitted size,    *)
(* and messages with some replay fields zero                                *)
ReplayFieldGrid == {0, 1} \X {0, 1} \X {0, NowMs}
PayloadGrid ==
  GossipPayloads
  \cup {Encoded(WireVote(f[1], f[2], f[3]), MAX_WIRE_MSG_BYTES) : f \in ReplayFieldGrid}
  \cup {Encoded(WireCommit(f[1], f[2], f[3]), SmallLen) : f \in ReplayFieldGrid}
  \cup {Encoded(WireVote(1, 1, NowMs), MAX_WIRE_MSG_BYTES + 1)}

(* Every handling of a payload from peer src that can come next *)
Probes(src) ==
  {[data |-> x[1], now |-> x[2], r |-> on_message(Net, src, x[1], x[2], x[3])] :
     x \in PayloadGrid \X TimesAfter(GossipSteps) \X Jitters}

InBackoff(src, now) == src \in DOMAIN peer_backoff /\ now < peer_backoff[src].until

(* The messages src got admitted in the rate window that is open at `now` *)
WindowCount(src, now) ==
  IF src \in DOMAIN peer_rates /\ now - peer_rates[src].start < MsPerSec
  THEN peer_rates[src].count
  ELSE 0

(* The piecewise cap of the rate limit for base rate b and score s *)
CapFor(b, s) ==
  LET c == IF s <= -100 THEN b \div 4
           ELSE IF s < 0 THEN b \div 2
           ELSE IF s < 50 THEN b
           ELSE IF s < 150 THEN 2 * b
           ELSE 4 * b
  IN IF c < 1 THEN 1 ELSE c

RateAdmits(src, now) == WindowCount(src, now) < CapFor(max_msg_per_sec, DecayedScore(src, now))

Canonical(data) == data.bytes[1] = "bincode"

Passes(src, data, now) ==
  /\ data.len <= MAX_WIRE_MSG_BYTES
  /\ ~InBackoff(src, now)
  /\ ~BannedAt(src, now)
  /\ RateAdmits(src, now)
  /\ sha256(data) \notin replay_cache.set
  /\ Canonical(data)

(* C21: a gossip message is sent on the inbound channel only if its size is  *)
(* at most 256 KiB, its sender is neither in backoff nor banned, the rate     *)
(* window admitted it, its id was not in the replay cache and it decoded; the *)
(* good observation is applied to such messages only, and every other message *)
(* is dropped                                                                 *)
C21_InboundPath ==
  \A src \in GossipPeers : \A pr \in Probes(src) :
    /\ pr.r.deliver # None => Passes(src, pr.data, pr.now)
    /\ pr.r.deliver # None <=> pr.r.stage = "delivered"
    /\ pr.r.deliver # None => pr.r.deliver = {<<src, pr.data.bytes[2]>>}
    /\ pr.r.stage = "delivered" =>
         pr.r.net.scoring[src].score = Bounded(DecayedScore(src, pr.now), 1)
    /\ pr.r.stage # "delivered" /\ src \in DOMAIN pr.r.net.scoring =>
         pr.r.net.scoring[src].score <= DecayedScore(src, pr.now)
    /\ ~Passes(src, pr.data, pr.now) => pr.r.deliver = None

(* C21 witness: a vote of a peer with nine offences behind it waits in the *)
(* inbound channel, its id is cached and the peer's score went up by one    *)
C21_Witness ==
  /\ Len(inbound) = 1
  /\ inbound[1][1] = 1
  /\ sha256(Encoded(inbound[1][2], SmallLen)) \in replay_cache.set
  /\ 1 \in DOMAIN peers
  /\ peers[1].score = -89

(* Base rates and scores the cap is computed for *)
BaseGrid == 0..(4 * MaxRate + 1)
ScoreGrid == {I32Min, min_score - 1, I32Max, max_score + 1} \cup (min_score..max_score)

(* The count the next admission of src at `now` starts from *)
CountAt(rates, src, now) ==
  IF src \in DOMAIN rates /\ now - rates[src].start < MsPerSec THEN rates[src].count ELSE 0

(* The cap is the piecewise function of the score, at least 1 and *)
(* non-decreasing in the score                                     *)
C24_Cap ==
  \A b \in BaseGrid : \A s \in ScoreGrid :
    /\ effective_rate_limit(b, s) = CapFor(b, s)
    /\ effective_rate_limit(b, s) >= 1
    /\ s < I32Max => effective_rate_limit(b, s) <= effective_rate_limit(b, s + 1)

(* An admission raises the count of the open window by one and leaves it at *)
(* or below the cap for the sender's score                                  *)
C24_Admission ==
  \A src \in GossipPeers : \A pr \in Probes(src) :
    pr.r.stage \in {"replay", "decode", "legacy", "delivered"} =>
      /\ CountAt(pr.r.net.peer_rates, src, pr.now) = WindowCount(src, pr.now) + 1
      /\ CountAt(pr.r.net.peer_rates, src, pr.now)
           <= CapFor(max_msg_per_sec, DecayedScore(src, pr.now))

(* The count of a peer's window goes back only once the window is 1 s old *)
C24_Reset ==
  \A src \in GossipPeers :
    CountAt(peer_rates', src, clock') >= CountAt(peer_rates, src, clock')

(* C24: per peer, the messages admitted within one 1-second rate window never *)
(* exceed the cap in force at admission, the cap is b/4, b/2, b, 2b, 4b by    *)
(* score band and at least 1, and the window count resets only when at least  *)
(* 1 second has passed since the window start                                 *)
C24_RateWindow == [](C24_Cap /\ C24_Admission) /\ [][C24_Reset]_vars

(* The replay fields of a decoded vote or commit are all zero *)
AllZero(msg) == msg.body.epoch = 0 /\ msg.body.msg_counter = 0 /\ msg.body.sent_ts_ms = 0

(* C25: under the production profile a decoded vote or commit is dropped by *)
(* the legacy filter exactly when epoch, msg_counter and sent_ts_ms are all  *)
(* zero; with one of them non-zero it is handed to the finalizer             *)
C25_LegacyFilter ==
  production =>
    \A src \in GossipPeers : \A pr \in Probes(src) :
      pr.r.stage \in {"legacy", "delivered"} =>
        /\ pr.r.stage = "legacy" <=> AllZero(pr.data.bytes[2])
        /\ pr.r.stage = "delivered" <=> ~AllZero(pr.data.bytes[2])

(* The stage that ends the handling when the checks are applied in the order *)
(* size, backoff, ban, rate, replay id, decode, legacy filter                 *)
StageInOrder(src, data, now) ==
  IF data.len > MAX_WIRE_MSG_BYTES THEN "oversize"
  ELSE IF InBackoff(src, now) THEN "backoff"
  ELSE IF BannedAt(src, now) THEN "banned"
  ELSE IF ~RateAdmits(src, now) THEN "rate"
  ELSE IF sha256(data) \in replay_cache.set THEN "replay"
  ELSE IF ~Canonical(data) THEN "decode"
  ELSE IF production /\ is_legacy(data.bytes[2]) THEN "legacy"
  ELSE "delivered"

(* An oversized message is counted invalid and penalised whatever the *)
(* sender's backoff                                                    *)
C31_SizeFirst ==
  \A src \in GossipPeers : \A pr \in Probes(src) :
    pr.data.len > MAX_WIRE_MSG_BYTES =>
      /\ pr.r.stage = "oversize"
      /\ pr.r.net.metrics["p2p_invalid_msg_total"] = metrics["p2p_invalid_msg_total"] + 1
      /\ pr.r.net.peer_backoff[src].strikes >= EntryOr(peer_backoff, src, BackoffState_new(pr.now)).strikes

(* A message dropped for backoff or ban takes no slot of the rate window, a *)
(* rate-limited message is not put into the replay cache, and a message      *)
(* dropped for backoff is counted as throttled and has no other effect       *)
C31_NoLaterEffects ==
  \A src \in GossipPeers : \A pr \in Probes(src) :
    /\ pr.r.stage \in {"backoff", "banned"} => pr.r.net.peer_rates = peer_rates
    /\ pr.r.stage \in {"backoff", "oversize", "banned", "rate"} => pr.r.net.replay = replay_cache
    /\ pr.r.stage = "backoff" =>
         /\ pr.r.net.metrics = Inc(metrics, "p2p_reputation_throttled_total")
         /\ pr.r.net.scoring = peers
         /\ pr.r.net.peer_backoff = peer_backoff

(* C31: the inbound checks are applied in the order size, backoff, ban, rate *)
(* limit, replay id, decode, legacy filter, good observation, and a message   *)
(* dropped at one stage has none of the effects of a later stage: an          *)
(* oversized message is judged by the size check before the backoff is        *)
(* consulted, a message dropped for backoff or ban takes no rate-window slot, *)
(* and a rate-limited message is not inserted into the replay cache           *)
C31_StageOrder ==
  /\ C31_SizeFirst
  /\ C31_NoLaterEffects
  /\ \A src \in GossipPeers : \A pr \in Probes(src) :
       pr.r.stage = StageInOrder(src, pr.data, pr.now)

----------------------------------------------------------------------------
(* Properties of the replay cache, checked under SpecCache *)

(* The queue and the set hold the same ids, at most cap, none twice *)
C32_Shape ==
  /\ Len(replay_cache.q) <= replay_cache.cap
  /\ Cardinality(replay_cache.set) = Len(replay_cache.q)
  /\ replay_cache.set = {replay_cache.q[i] : i \in DOMAIN replay_cache.q}

(* seen_or_insert returns true exactly for a cached id; a hit leaves the    *)
(* cache as it is, a miss appends the id and, when the cache is full, drops *)
(* the front of the queue                                                   *)
C32_Call ==
  \A id \in CacheIds \cup {sha256(0)} :
    LET r == seen_or_insert(replay_cache, id)
        full == Len(replay_cache.q) = replay_cache.cap
    IN /\ r.result <=> id \in replay_cache.set
       /\ r.result => r.cache = replay_cache
       /\ ~r.result =>
            /\ id \in r.cache.set
            /\ r.cache.cap = replay_cache.cap
            /\ r.cache.q = Append(IF full THEN Tail(replay_cache.q) ELSE replay_cache.q, id)
            /\ r.cache.set = (IF full THEN replay_cache.set \ {Head(replay_cache.q)}
                              ELSE replay_cache.set) \cup {id}

(* The queue keeps the ids in the order of their insertion: a step appends *)
(* at the back and removes at the front only                                *)
C32_Fifo ==
  \E k \in 0..1 : \E tail \in {<<>>} \cup {<<id>> : id \in CacheIds} :
    replay_cache'.q = SubSeq(replay_cache.q, k + 1, Len(replay_cache.q)) \o tail

(* C32: ReplayCache holds at most cap ids after every call, its queue and   *)
(* its set contain exactly the same ids with no duplicate in the queue,     *)
(* eviction removes the oldest inserted id first, and seen_or_insert(id)    *)
(* returns true exactly when id is cached, leaving the cache unchanged on a *)
(* hit and inserting id on a miss                                           *)
C32_ReplayCache == [](C32_Shape /\ C32_Call) /\ [][C32_Fifo]_vars

(* A miss on a full cache of two ids has evicted the older one *)
C32_Witness ==
  /\ replay_cache.cap = 2
  /\ replay_cache.q = <<sha256(2), sha256(3)>>
  /\ last_call.op = "seen_or_insert"
  /\ last_call.input = [id |-> sha256(3), q |-> <<sha256(1), sha256(2)>>]
  /\ last_call.result = FALSE
  /\ seen_or_insert(replay_cache, sha256(1)).result = FALSE

----------------------------------------------------------------------------
(* Properties of the backoff, checked under SpecBackoff *)

(* The strikes, the weights and the hash values a bump is computed for *)
StrikeGrid == 0..100
WeightGrid == {0, 1, 2, 5, 10, 100}
HashGrid == {0, MaxJitter, JitterMod, 3 * JitterMod + 7, NowMs}
BumpTimes == {0, MsPerSec \div 2, NowMs}

(* The weight the transport gives to a drop at each stage *)
WeightOf(stage) ==
  IF stage = "oversize" THEN 10
  ELSE IF stage = "decode" THEN 5
  ELSE IF stage = "replay" THEN 1
  ELSE 2

(* The handlings of a payload from peer src that can come next, with the *)
(* hash value each was given                                             *)
BackoffProbes(src) ==
  {[data |-> x[1], now |-> x[2], h64 |-> x[3],
    r |-> on_message(Net, src, x[1], x[2], x[3])] :
     x \in BackoffPayloads \X TimesAfter(BackoffSteps) \X HashGrid}

(* The result of bump on the grid *)
C33_Formula ==
  \A st \in StrikeGrid, w \in WeightGrid, h64 \in HashGrid, now \in BumpTimes :
    LET b == bump([until |-> 0, strikes |-> st], now, w, h64)
        base == IF 50 * 2^(b.strikes \div 5) < 5000 THEN 50 * 2^(b.strikes \div 5)
                ELSE 5000
    IN /\ b.strikes = (IF st + w < 100 THEN st + w ELSE 100)
       /\ b.until - now - base \in 0..249
       /\ b.until - now - base = h64 % 250

(* C33: a bump with weight w at `now` sets strikes to min(strikes + w, 100)  *)
(* and until to now + min(50 * 2^(strikes / 5), 5000) ms + jitter with       *)
(* 0 <= jitter < 250 (integer division, new strikes), and the transport uses *)
(* weight 10 for an oversized message, 5 for a decode failure, 1 for a       *)
(* replay-cache hit and 2 for a rate-limit rejection                         *)
C33_Bump ==
  /\ C33_Formula
  /\ \A src \in GossipPeers : \A pr \in BackoffProbes(src) :
       pr.r.stage \in {"oversize", "decode", "replay", "rate"} =>
         LET before == EntryOr(peer_backoff, src, BackoffState_new(pr.now))
             after == pr.r.net.peer_backoff[src]
         IN /\ after.strikes
                 = (IF before.strikes + WeightOf(pr.r.stage) < 100
                    THEN before.strikes + WeightOf(pr.r.stage) ELSE 100)
            /\ after = bump(before, pr.now, WeightOf(pr.r.stage), pr.h64)

(* A replayed vote was penalised with weight 1 after a decode failure with *)
(* weight 5: six strikes, a base of 100 ms and the largest jitter            *)
C33_Witness ==
  /\ last_call.op = "message"
  /\ last_call.result = "replay"
  /\ 1 \in DOMAIN peer_backoff
  /\ peer_backoff[1].strikes = 6
  /\ peer_backoff[1].until = clock + 100 + MaxJitter

(* C34: for one peer, successive bump calls at non-decreasing times produce *)
(* non-decreasing until values, whatever the weights and the jitter         *)
C34_UntilMonotone ==
  [][\A p \in DOMAIN bumped : bumped'[p].until >= bumped[p].until]_vars

(* C40: a peer's backoff outlives its connection: a peer that comes back   *)
(* before the until of its latest bump still has the strikes of that bump, *)
(* and its messages are dropped as in-backoff until then                   *)
C40_BackoffOutlives ==
  \A p \in DOMAIN bumped :
    ConnsOf(conns, p) # {} /\ clock < bumped[p].until =>
      /\ p \in DOMAIN peer_backoff
      /\ peer_backoff[p].strikes >= bumped[p].strikes
      /\ \A pr \in BackoffProbes(p) : pr.now < bumped[p].until => pr.r.stage = "backoff"

----------------------------------------------------------------------------
(* Properties of the freshness check at the ends of the u64 range, checked *)
(* under SpecFresh                                                         *)

AbsDiff(a, b) == IF a >= b THEN a - b ELSE b - a

(* What check_freshness returns for a message with sent_ts_ms # 0 if the *)
(* expiry test rejects nothing                                           *)
WithoutExpiry(skew_ms, ttl_cap_ms, sent_ts_ms, ttl_ms, now) ==
  /\ ttl_ms <= ttl_cap_ms
  /\ now # 0
  /\ AbsDiff(now, sent_ts_ms) <= skew_ms

(* On the whole grid: the expiry bound is not below `now` once the skew test *)
(* has passed, and the result is that of the other tests                     *)
C38_Formula ==
  \A skew_ms \in FreshSkews, ttl_cap_ms \in FreshTtlCaps, sent_ts_ms \in FreshTimes \ {0},
     ttl_ms \in FreshTtls, now \in FreshTimes :
    /\ ttl_ms # 0 /\ AbsDiff(now, sent_ts_ms) <= skew_ms
         => now <= u64_saturating_add(u64_saturating_add(sent_ts_ms, ttl_ms), skew_ms)
    /\ check_freshness_cfg(skew_ms, ttl_cap_ms, sent_ts_ms, ttl_ms, now)
         = WithoutExpiry(skew_ms, ttl_cap_ms, sent_ts_ms, ttl_ms, now)

(* C38: in check_freshness the TTL-expiry test never rejects a message that *)
(* passed the clock-skew test: with sent_ts_ms # 0, ttl_ms # 0 and           *)
(* |now - sent_ts_ms| <= max_clock_skew_ms, now is at most                   *)
(* sat(sat(sent_ts_ms + ttl_ms) + max_clock_skew_ms), so for sent_ts_ms # 0  *)
(* the outcome does not depend on ttl_ms as long as ttl_ms <= max_ttl_ms     *)
C38_ExpiryNeverRejects ==
  /\ C38_Formula
  /\ last_call.op = "check_freshness" /\ last_call.input.sent_ts_ms # 0 =>
       last_call.result = WithoutExpiry(last_call.input.max_clock_skew_ms,
                                        last_call.input.max_ttl_ms,
                                        last_call.input.sent_ts_ms,
                                        last_call.input.ttl_ms, last_call.now)

(* A message sent at the end of the u64 range, whose expiry saturates, was *)
(* accepted at the end of the range                                        *)
C38_Witness ==
  /\ last_call.op = "check_freshness"
  /\ last_call.input = [max_clock_skew_ms |-> max_clock_skew_ms, max_ttl_ms |-> max_ttl_ms,
                        sent_ts_ms |-> U64Max - 1, ttl_ms |-> max_ttl_ms]
  /\ last_call.now = U64Max
  /\ last_call.result = TRUE

----------------------------------------------------------------------------
(* Properties of commit safety, checked under SpecSafety *)

(* The sizes of validator sets the threshold arithmetic is checked for *)
MaxSetSize == 64
SetSizes == 1..MaxSetSize

(* Clock readings of process_commit_verified: unavailable, the sealing time, *)
(* and the last reading within the skew and the first beyond it              *)
CommitTimes == {0, NowMs, NowMs + max_clock_skew_ms, NowMs + max_clock_skew_ms + 1}

(* Commits on both hashes with every metadata and every signer set, well *)
(* signed or with the signature of validator 1 forged                    *)
CommitsSafety ==
  UNION {{MkCommit(h, 0, m, bh, S, <<"good", 0>>), MkCommit(h, 0, m, bh, S, <<"forged", 1>>)} :
           <<h, m, bh, S>> \in Heights \X (MetasTide \cup {NoEpochMeta}) \X Hashes
                                 \X (SUBSET (1..MaxValidators))}

(* The commits of CommitsSafety that process_commit_verified of a finalizer *)
(* with validators 1..n and the given require_epoch accepts at some time    *)
AcceptedBy ==
  [n \in 1..MaxValidators, req \in BOOLEAN |->
     {c \in CommitsSafety :
        \E now \in CommitTimes : process_commit_verified(1..n, req, c, now) = "Ok"}]

(* The commits returned so far *)
EmittedCommits == UNION {{emitted[s][i] : i \in 1..Len(emitted[s])} : s \in Slots}

(* Two commits for one (height, round) with different block_hash or meta *)
Conflict(c1, c2) ==
  /\ c1.height = c2.height /\ c1.round = c2.round
  /\ c1.block_hash # c2.block_hash \/ MetaOf(c1) # MetaOf(c2)

(* The validators that signed both commits *)
Both(c1, c2) == DOMAIN c1.signatures \cap DOMAIN c2.signatures

(* 2 * (floor(2n/3) + 1) - n *)
Overlap(n) == 2 * ((2 * n) \div 3 + 1) - n

(* The overlap is at least 1 for every size, and any two conflicting commits *)
(* accepted under one configuration share that many signers                  *)
C35_Formula ==
  /\ \A n \in SetSizes : Overlap(n) >= 1
  /\ \A n \in 1..MaxValidators, req \in BOOLEAN :
       \A c1, c2 \in AcceptedBy[n, req] :
         Conflict(c1, c2) => Cardinality(Both(c1, c2)) >= Overlap(n)

(* C35: any two commits that one finalizer accepts through                  *)
(* process_commit_verified or returns from verified votes for the same      *)
(* (height, round) with different block_hash or different meta have at      *)
(* least 2*(floor(2N/3)+1) - N >= 1 validators in common among their signers *)
C35_QuorumsIntersect ==
  /\ C35_Formula
  /\ \A e \in EmittedCommits : \A c \in EmittedCommits \cup AcceptedBy[N, require_epoch] :
       Conflict(e, c) => Cardinality(Both(e, c)) >= Overlap(N)

(* C35 witness: with MaxValidators validators a commit was returned and a  *)
(* commit on the other hash, which process_commit_verified accepts, shares *)
(* exactly 2*(floor(2N/3)+1) - N signers with it                           *)
C35_Witness ==
  /\ N = MaxValidators
  /\ \E e \in EmittedCommits : \E c \in AcceptedBy[N, require_epoch] :
       /\ Conflict(e, c)
       /\ c.block_hash # e.block_hash
       /\ Cardinality(Both(e, c)) = Overlap(N)
       /\ Both(e, c) # DOMAIN e.signatures

(* C36: a commit returned by process_vote_verified has at least            *)
(* floor(2N/3)+1 signers, all of them validators, each signature verifies  *)
(* over the transcript rebuilt from the commit's fields, and                *)
(* process_commit_verified of a finalizer with the same validator set and   *)
(* configuration accepts it at every time at which its (sent_ts_ms, ttl_ms) *)
(* pass the freshness check                                                 *)
C36_ReturnedIsAccepted ==
  \A c \in EmittedCommits :
    /\ Cardinality(DOMAIN c.signatures) >= (2 * N) \div 3 + 1
    /\ DOMAIN c.signatures \subseteq validators
    /\ \A vid \in DOMAIN c.signatures :
         verify_pubkey_bytes(vid,
           vote_signing_bytes_auto(c.height, c.round, c.epoch, c.msg_counter,
                                   c.sent_ts_ms, c.ttl_ms, c.block_hash, vid),
           c.signatures[vid])
    /\ \A now \in CommitTimes :
         check_freshness(c.sent_ts_ms, c.ttl_ms, now)
         => process_commit_verified(validators, require_epoch, c, now) = "Ok"

(* C36 witness: a finalizer that requires an epoch returned a replay-sealed *)
(* commit in a round in which validator 1 is among the signers; the commit  *)
(* is fresh at the sealing time and stale once the skew is exceeded         *)
C36_Witness ==
  /\ require_epoch
  /\ N = MaxValidators
  /\ \E c \in EmittedCommits :
       /\ c.epoch # 0
       /\ 1 \in DOMAIN c.signatures
       /\ check_freshness(c.sent_ts_ms, c.ttl_ms, NowMs)
       /\ ~check_freshness(c.sent_ts_ms, c.ttl_ms, NowMs + max_clock_skew_ms + 1)

(* The round's recorded votes are those of all N validators, all with one *)
(* block_hash and one meta                                                 *)
Unanimous(s) ==
  LET rm == RoundVotes(votes, s[1], s[2])
  IN /\ DOMAIN rm = validators
     /\ \A a, b \in DOMAIN rm : rm[a].block_hash = rm[b].block_hash /\ rm[a].meta = rm[b].meta

(* floor(2n/3)+1 lies in 1..n for every size n >= 1 *)
C37_Formula == \A n \in SetSizes : Threshold(n) >= 1 /\ Threshold(n) <= n

(* C37: the threshold floor(2N/3)+1 is between 1 and N for every N >= 1 and *)
(* ConsensusDriver::new rejects the empty validator set, so whenever all N   *)
(* validators have an accepted vote at (h, r) with identical block_hash and  *)
(* meta, a vote-processing call no later than the N-th of them has returned  *)
(* a commit for (h, r)                                                       *)
C37_UnanimousCommits ==
  /\ C37_Formula
  /\ \A build \in BOOLEAN : ConsensusDriver_new({}, build).result = "InvalidValidators"
  /\ validators # {}
  /\ \A s \in Slots :
       Unanimous(s) =>
         /\ Len(emitted[s]) >= 1
         /\ emitted[s][1].height = s[1] /\ emitted[s][1].round = s[2]
         /\ Cardinality(DOMAIN emitted[s][1].signatures) <= N

(* C37 witness: all MaxValidators validators voted alike and the first commit *)
(* of the round was returned before the last of them voted                     *)
C37_Witness ==
  \E s \in Slots :
    /\ N = MaxValidators
    /\ Unanimous(s)
    /\ Len(emitted[s]) >= 1
    /\ DOMAIN emitted[s][1].signatures # validators

----------------------------------------------------------------------------
(* Properties of connection admission, checked under SpecConn *)

Outsider(p) == allowlist # {} /\ p \notin allowlist

(* C22: with a non-empty allowlist a connection of a peer outside it is       *)
(* disconnected and counted in p2p_banned_total, and a gossip message of such *)
(* a peer is dropped and counted and never sent on the inbound channel        *)
C22_Allowlist ==
  \A p \in ConnPeers : Outsider(p) =>
    /\ \A ip \in ConnIps : \A now \in TimesAfter(ConnSteps) :
         LET r == on_connection_established(Net, p, ip, now)
         IN /\ r.disconnect
            /\ r.net.metrics["p2p_banned_total"] = metrics["p2p_banned_total"] + 1
    /\ \A data \in ConnPayloads : \A now \in TimesAfter(ConnSteps) :
         LET r == on_message(Net, p, data, now, 0)
         IN /\ r.deliver = None
            /\ r.net.metrics # metrics

(* The peers the per-IP table holds for ip *)
TableOf(ip) == IF ip \in DOMAIN peers_by_ip THEN peers_by_ip[ip] ELSE {}

(* The peers with a connection from ip that the node has not asked to close *)
Standing(ip) == {c.peer : c \in {x \in conns \ doomed : x.ip = Some(ip)}}

(* The peers with an open connection from ip whose establishment was accepted *)
AdmittedFrom(ip) == {c.peer : c \in {x \in admitted : x.ip = Some(ip)}}

(* C23: under every interleaving of ConnectionEstablished and                *)
(* ConnectionClosed the peers connected from one IP and not disconnected by  *)
(* the node never outnumber max_peers_per_ip, the per-IP table holds exactly *)
(* the admitted peers that still have an open connection, and a second       *)
(* connection of an admitted peer does not get the peer disconnected         *)
C23_IpCap ==
  \A i \in {1} :
    /\ Cardinality(Standing(i)) <= max_peers_per_ip
    /\ TableOf(i) = AdmittedFrom(i)
    /\ \A p \in Standing(i) \cap AdmittedFrom(i) :
         ~BannedAt(p, clock) => ~on_connection_established(Net, p, Some(i), clock).disconnect

----------------------------------------------------------------------------
(* Properties of the Merkle tree, checked under SpecMerkle *)

(* C26: for every non-empty sorted list P and every index i < |P|,           *)
(* merkle_proof_sorted(P, i) yields a proof, its leaf is the leaf hash of    *)
(* pair i, and verify_proof accepts it against merkle_root_sorted(P); for    *)
(* the empty list or an index i >= |P| it yields None                        *)
C26_ProofVerifies ==
  \A index \in 0..(MaxPairs + 1) :
    LET proof == merkle_proof_sorted(pairs, index)
    IN IF pairs # <<>> /\ index < Len(pairs)
       THEN /\ proof # None
            /\ \A x \in proof :
                 /\ x.leaf = hash_leaf(pairs[index + 1][1], pairs[index + 1][2])
                 /\ verify_proof(merkle_root_sorted(pairs), x)
       ELSE proof = None

(* The proof of the last pair of a list of odd length, whose first sibling *)
(* is the leaf itself, has been verified                                    *)
C26_Witness ==
  /\ Len(pairs) % 2 = 1
  /\ last_call.op = "verify_proof"
  /\ last_call.input.kind = "genuine"
  /\ last_call.input.index = Len(pairs) - 1
  /\ Len(last_call.input.proof.path) > 1
  /\ last_call.input.proof.path[1].sibling = last_call.input.proof.leaf
  /\ last_call.result = TRUE

(* C27: a proof that verifies no longer does once the value is changed (the *)
(* leaf recomputed from the key and the new value), the root is changed, or  *)
(* one sibling of the path is changed                                        *)
C27_TamperDetected ==
  \A index \in 0..(Len(pairs) - 1) :
    /\ verify_proof(Genuine(pairs, index).root, Genuine(pairs, index).proof)
    /\ \A f \in Forged(pairs, index, HashPool(pairs)) : ~verify_proof(f.root, f.proof)

(* A proof of a list of three pairs with the value changed has been rejected *)
C27_Witness ==
  /\ Len(pairs) = 3
  /\ last_call.op = "verify_proof"
  /\ last_call.input.kind = "value"
  /\ last_call.input.index = 1
  /\ last_call.input.proof.leaf # Leaves(pairs)[2]
  /\ last_call.input.proof.path = Genuine(pairs, 1).proof.path
  /\ last_call.input.root = merkle_root_sorted(pairs)
  /\ last_call.result = FALSE

----------------------------------------------------------------------------
(* Properties of the persistent state, checked under SpecStore *)

(* C28: state_root depends only on the contents of the store: two stores     *)
(* with the same contents, reached along different commit_atomic histories,  *)
(* have the same root; two calls on unchanged contents return the same root  *)
(* whatever the order of the iteration; an empty store has the all-zero root *)
C28_RootOfContents ==
  \A s1 \in StoreIds, s2 \in StoreIds :
    \A o1 \in Orders(stores[s1]), o2 \in Orders(stores[s2]) :
      /\ state_root(stores[s1], o1, TRUE) # None
      /\ stores[s1] = stores[s2]
           => state_root(stores[s1], o1, TRUE) = state_root(stores[s2], o2, TRUE)
      /\ stores[s1] = EmptyMap => state_root(stores[s1], o1, TRUE) = Some(ZeroHash)

(* Both stores hold the same three pairs, store 1 through single puts and *)
(* store 2 through its batches, and the root of store 2 has been taken     *)
C28_Witness ==
  /\ stores[1] = stores[2]
  /\ DOMAIN stores[1] = StoreKeys
  /\ last_call.op = "state_root"
  /\ last_call.input.store = 2
  /\ last_call.result = state_root(stores[1], <<(<<2>>), (<<1, 0>>), (<<1>>)>>, TRUE)
  /\ last_call.result \notin {None, Some(ZeroHash)}

(* C29: prove_key(k) returns (k, v, root, proof) iff k is in the store, with *)
(* v the stored value, root the state_root of the same contents, proof.leaf  *)
(* the leaf hash of (k, v) and verify_proof(root, proof) true; for an absent *)
(* key it returns None                                                       *)
C29_ProveKey ==
  \A s \in StoreIds, key \in StoreKeys :
    \A order \in Orders(stores[s]) :
      LET db == stores[s]
          r == prove_key(db, key, order, TRUE)
      IN /\ r.result = "Ok"
         /\ (r.value # None) <=> (key \in DOMAIN db)
         /\ \A x \in r.value :
              /\ x.key = key
              /\ x.val = db[key]
              /\ \A o2 \in Orders(db) : Some(x.root) = state_root(db, o2, TRUE)
              /\ x.proof.leaf = hash_leaf(key, db[key])
              /\ verify_proof(x.root, x.proof)

(* The key between the two others of a full store has been proved *)
C29_Witness ==
  /\ DOMAIN stores[2] = StoreKeys
  /\ last_call.op = "prove_key"
  /\ last_call.input = [store |-> 2, key |-> <<1, 0>>]
  /\ last_call.result.result = "Ok"
  /\ \E x \in last_call.result.value :
       /\ x.val = stores[2][<<1, 0>>]
       /\ Len(x.proof.path) = 2
       /\ verify_proof(x.root, x.proof)

----------------------------------------------------------------------------
(* Properties of the keystore, checked under SpecKeystore *)

(* The calls the limiter let pass in the window that started at w *)
PassedIn(w) == {i \in DOMAIN calls : calls[i].allowed /\ calls[i].window = w}

(* C30: with tasks calling Keystore::sign concurrently, the limiter is      *)
(* updated under the mutex, so that at most limit_per_sec calls pass within *)
(* one window of the limiter, which is one second long; a call beyond the   *)
(* limit returns RateLimited, and no audit record and no signature belong   *)
(* to it                                                                    *)
C30_SignLimit ==
  /\ \A t \in Tasks : tasks[t].pc \in {"allow", "audit", "sign"} <=> mutex = Some(t)
  /\ \A i \in DOMAIN calls :
       /\ Cardinality(PassedIn(calls[i].window)) <= limiter.limit_per_sec
       /\ calls[i].window <= calls[i].at
       /\ calls[i].at < calls[i].window + MsPerSec
       /\ \A j \in DOMAIN calls :
            calls[j].window > calls[i].window => calls[j].window >= calls[i].window + MsPerSec
       /\ ~calls[i].allowed
            => Cardinality({j \in PassedIn(calls[i].window) : j < i}) = limiter.limit_per_sec
  /\ \A k \in DOMAIN audit :
       /\ audit[k].call \in DOMAIN calls /\ calls[audit[k].call].allowed
       /\ \A m \in DOMAIN audit : audit[m].call = audit[k].call => m = k
  /\ \A k \in DOMAIN signed :
       /\ signed[k] \in DOMAIN calls /\ calls[signed[k]].allowed
       /\ \A m \in DOMAIN signed : signed[m] = signed[k] => m = k

(* Two tasks have filled a window of limit MaxLimit, each call with its    *)
(* audit record and its signature, and a further call in the same window    *)
(* was refused                                                              *)
C30_Witness ==
  /\ limiter.limit_per_sec = MaxLimit
  /\ Len(calls) > MaxLimit
  /\ \A i \in 1..MaxLimit : calls[i].allowed /\ calls[i].window = 0
  /\ calls[1].task # calls[2].task
  /\ ~calls[MaxLimit + 1].allowed
  /\ calls[MaxLimit + 1].window = 0
  /\ Len(audit) = MaxLimit
  /\ Len(signed) = MaxLimit

====
